---------------------------- MODULE Spec2Model ----------------------------
(***************************************************************************)
(* A model of the physics core of Solar3 (src/src/quadtree.rs and the core *)
(* systems of src/src/sim.rs): the Barnes-Hut quadtree, the kick-drift-    *)
(* kick integrator, the spatial hash and the two collision policies.       *)
(*                                                                         *)
(* Numbers.  An f32 is modelled as an exact rational [n, d] in lowest      *)
(* terms with d > 0; d = 0 stands for a non-finite value (NaN, inf).       *)
(* +, -, *, / are exact.  sqrt and powf, whose exact values are            *)
(* irrational, are rounded down to the grid 1/SqrtRes.  The integrator and *)
(* the force stage round what they store to the same grid (Fl), as the     *)
(* f32 stores do at their own resolution.                                  *)
(***************************************************************************)
EXTENDS Integers, Sequences, FiniteSets, TLC

\* ------------------------------------------------------------ bounds
MaxBodies == 3
MaxSimBodies == 2
MaxFrames == 2
SqrtRes == 1

\* ------------------------------------------------------------ rationals
Abs(i) == IF i < 0 THEN -i ELSE i

RECURSIVE GCD(_, _)
GCD(a, b) == IF b = 0 THEN a ELSE GCD(b, a % b)

NaN == [n |-> 0, d |-> 0]

IsFinite(a) == a.d # 0

\* The rational n/d in lowest terms; anything over 0 is non-finite.
R(n, d) ==
    IF d = 0 THEN NaN
    ELSE LET g == GCD(Abs(n), Abs(d))
             s == IF d < 0 THEN -1 ELSE 1
         IN  [n |-> s * (n \div g), d |-> s * (d \div g)]

RI(i) == [n |-> i, d |-> 1]

Zero == RI(0)

RNeg(a) == [n |-> -a.n, d |-> a.d]

RAdd(a, b) ==
    IF a.d = 0 \/ b.d = 0 THEN NaN
    ELSE LET g == GCD(a.d, b.d)
         IN  R(a.n * (b.d \div g) + b.n * (a.d \div g), (a.d \div g) * b.d)

RSub(a, b) == RAdd(a, RNeg(b))

RMul(a, b) ==
    IF a.d = 0 \/ b.d = 0 THEN NaN
    ELSE LET g1 == GCD(Abs(a.n), b.d)
             g2 == GCD(Abs(b.n), a.d)
         IN  IF a.n = 0 \/ b.n = 0 THEN Zero
             ELSE [n |-> (a.n \div g1) * (b.n \div g2),
                   d |-> (a.d \div g2) * (b.d \div g1)]

\* x / 0 is inf or NaN in f32: non-finite.
RDiv(a, b) ==
    IF a.d = 0 \/ b.d = 0 \/ b.n = 0 THEN NaN
    ELSE RMul(a, IF b.n < 0 THEN [n |-> -b.d, d |-> -b.n] ELSE [n |-> b.d, d |-> b.n])

\* Comparisons; every comparison with a non-finite value is false, as with NaN.
\* Whole parts are compared first, so that the cross products stay small.
RLt(a, b) ==
    /\ a.d # 0
    /\ b.d # 0
    /\ LET fa == a.n \div a.d
           fb == b.n \div b.d
       IN  \/ fa < fb
           \/ fa = fb /\ (a.n % a.d) * b.d < (b.n % b.d) * a.d

RLe(a, b) == a.d # 0 /\ b.d # 0 /\ ~RLt(b, a)

RGt(a, b) == RLt(b, a)

RGe(a, b) == RLe(b, a)

\* f32::max and f32::min: a NaN operand yields the other operand.
RMax(a, b) == IF a.d = 0 THEN b ELSE IF b.d = 0 THEN a ELSE IF RLt(a, b) THEN b ELSE a

RMin(a, b) == IF a.d = 0 THEN b ELSE IF b.d = 0 THEN a ELSE IF RLt(b, a) THEN b ELSE a

\* f32::clamp(lo, hi).
RClamp(a, lo, hi) == IF RLt(a, lo) THEN lo ELSE IF RGt(a, hi) THEN hi ELSE a

\* f32::floor followed by `as i32`, which turns NaN into 0.
RFloor(a) == IF a.d = 0 THEN 0 ELSE a.n \div a.d

\* Rounding toward zero to the grid 1/SqrtRes.
Fl(a) ==
    IF a.d = 0 THEN NaN
    ELSE LET m == (Abs(a.n) * SqrtRes) \div a.d
         IN  R((IF a.n < 0 THEN -1 ELSE 1) * m, SqrtRes)

\* The largest i in lo..hi-1 with i*i <= k, given lo*lo <= k < hi*hi.
RECURSIVE ISqrtIn(_, _, _)
ISqrtIn(k, lo, hi) ==
    IF hi - lo <= 1 THEN lo
    ELSE LET mid == (lo + hi) \div 2
         IN  IF mid * mid <= k THEN ISqrtIn(k, mid, hi) ELSE ISqrtIn(k, lo, mid)

\* floor(sqrt(k)) for a natural k below 2^31.
ISqrt(k) == ISqrtIn(k, 0, 46341)

RECURSIVE ICbrtIn(_, _, _)
ICbrtIn(k, lo, hi) ==
    IF hi - lo <= 1 THEN lo
    ELSE LET mid == (lo + hi) \div 2
         IN  IF mid * mid * mid <= k THEN ICbrtIn(k, mid, hi) ELSE ICbrtIn(k, lo, mid)

\* floor(cbrt(k)) for a natural k below 2^31.
ICbrt(k) == ICbrtIn(k, 0, 1291)

\* f32::sqrt, rounded down to the grid 1/SqrtRes (exact on squares of grid values).
RSqrt(a) ==
    IF a.d = 0 \/ a.n < 0 THEN NaN
    ELSE R(ISqrt((a.n * SqrtRes * SqrtRes) \div a.d), SqrtRes)

\* ------------------------------------------------------------ Vec2
V(x, y) == [x |-> x, y |-> y]

VI(i, j) == V(RI(i), RI(j))

VZero == VI(0, 0)

VAdd(u, v) == V(RAdd(u.x, v.x), RAdd(u.y, v.y))

VSub(u, v) == V(RSub(u.x, v.x), RSub(u.y, v.y))

VScale(u, k) == V(RMul(u.x, k), RMul(u.y, k))

VDivS(u, k) == V(RDiv(u.x, k), RDiv(u.y, k))

VDot(u, v) == RAdd(RMul(u.x, v.x), RMul(u.y, v.y))

VLen2(u) == VDot(u, u)

VFinite(u) == IsFinite(u.x) /\ IsFinite(u.y)

VFl(u) == V(Fl(u.x), Fl(u.y))

\* ------------------------------------------------------------ Quad
Quad(center, half_size) == [center |-> center, half_size |-> half_size]

contains(q, p) ==
    /\ RGe(p.x, RSub(q.center.x, q.half_size))
    /\ RLe(p.x, RAdd(q.center.x, q.half_size))
    /\ RGe(p.y, RSub(q.center.y, q.half_size))
    /\ RLe(p.y, RAdd(q.center.y, q.half_size))

\* The four children in the order the array holds them: NW, NE, SW, SE.
subdivide(q) ==
    LET hs == RMul(q.half_size, R(1, 2))
    IN  << Quad(VAdd(q.center, V(RNeg(hs), hs)), hs),
           Quad(VAdd(q.center, V(hs, hs)), hs),
           Quad(VAdd(q.center, V(RNeg(hs), RNeg(hs))), hs),
           Quad(VAdd(q.center, V(hs, RNeg(hs))), hs) >>

size(q) == RMul(q.half_size, RI(2))

\* ------------------------------------------------------------ Node, QuadTree
Empty(q) == [kind |-> "Empty", quad |-> q]

Leaf(q, pos, mass) == [kind |-> "Leaf", quad |-> q, pos |-> pos, mass |-> mass]

Internal(q, mass, com, children) ==
    [kind |-> "Internal", quad |-> q, mass |-> mass, com |-> com, children |-> children]

\* QuadTree::new
new_tree(bounds) == Empty(bounds)

\* The index into the children array, counted from 1 (Rust's index + 1).
child_index(p, q) ==
    LET right == IF RGt(p.x, q.center.x) THEN 1 ELSE 0
        top == IF RGt(p.y, q.center.y) THEN 1 ELSE 0
    IN  (top * 2 + right) + 1

RECURSIVE insert_node(_, _, _)
insert_node(node, p, mass) ==
    CASE node.kind = "Empty" ->
            IF ~contains(node.quad, p) THEN node ELSE Leaf(node.quad, p, mass)
      [] node.kind = "Leaf" ->
            LET quads == subdivide(node.quad)
                c0 == [i \in 1..4 |-> Empty(quads[i])]
                i1 == child_index(node.pos, node.quad)
                c1 == [c0 EXCEPT ![i1] = insert_node(c0[i1], node.pos, node.mass)]
                i2 == child_index(p, node.quad)
                c2 == [c1 EXCEPT ![i2] = insert_node(c1[i2], p, mass)]
            IN  Internal(node.quad, Zero, VZero, c2)
      [] node.kind = "Internal" ->
            LET idx == child_index(p, node.quad)
            IN  [node EXCEPT !.children[idx] = insert_node(node.children[idx], p, mass)]

\* QuadTree::insert
insert(tree, p, mass) == insert_node(tree, p, mass)
\* A compute that leaves the second child (NE) out of the sums.
RECURSIVE compute_without_ne(_)
compute_without_ne(node) ==
    CASE node.kind = "Empty" -> [node |-> node, m |-> Zero, p |-> VZero]
      [] node.kind = "Leaf" -> [node |-> node, m |-> node.mass, p |-> node.pos]
      [] node.kind = "Internal" ->
            LET cs == [i \in 1..4 |-> compute_without_ne(node.children[i])]
                total_m == RAdd(RAdd(RAdd(Zero, cs[1].m), cs[3].m), cs[4].m)
                weighted ==
                    VAdd(VAdd(VAdd(VZero, VScale(cs[1].p, cs[1].m)),
                              VScale(cs[3].p, cs[3].m)),
                         VScale(cs[4].p, cs[4].m))
                mass == RMax(total_m, Zero)
                com == IF RGt(total_m, Zero) THEN VDivS(weighted, total_m) ELSE VZero
            IN  [node |-> Internal(node.quad, mass, com, [i \in 1..4 |-> cs[i].node]),
                 m |-> mass, p |-> com]

\* compute: the node with its aggregates filled in, and the (mass, com) it returns.
RECURSIVE compute(_)
compute(node) ==
    CASE node.kind = "Empty" -> [node |-> node, m |-> Zero, p |-> VZero]
      [] node.kind = "Leaf" -> [node |-> node, m |-> node.mass, p |-> node.pos]
      [] node.kind = "Internal" ->
            LET cs == [i \in 1..4 |-> compute(node.children[i])]
                total_m == RAdd(RAdd(RAdd(RAdd(Zero, cs[1].m), cs[2].m), cs[3].m), cs[4].m)
                weighted ==
                    VAdd(VAdd(VAdd(VAdd(VZero, VScale(cs[1].p, cs[1].m)),
                                   VScale(cs[2].p, cs[2].m)),
                              VScale(cs[3].p, cs[3].m)),
                         VScale(cs[4].p, cs[4].m))
                mass == RMax(total_m, Zero)
                com == IF RGt(total_m, Zero) THEN VDivS(weighted, total_m) ELSE VZero
            IN  [node |-> Internal(node.quad, mass, com, [i \in 1..4 |-> cs[i].node]),
                 m |-> mass, p |-> com]

build_mass_centers(tree) == compute(tree).node

\* get_density_factor's depth cap.
MAX_DEPTH == 12

RECURSIVE density_depth(_, _, _)
density_depth(node, p, depth) ==
    IF node.kind # "Internal" THEN depth
    ELSE IF ~contains(node.quad, p) \/ depth >= MAX_DEPTH THEN depth
    ELSE density_depth(node.children[child_index(p, node.quad)], p, depth + 1)

get_density_factor(tree, p) == RMin(R(density_depth(tree, p, 0), MAX_DEPTH), RI(1))

\* The softened point-mass term g * mass * r * inv, inv = 1 / sqrt(dist2)^3.  Its
\* exact value is irrational; it is rounded to the grid.
point_acc(g, mass, r, dist2) ==
    LET rt == RSqrt(dist2)
        inv == RDiv(RI(1), RMul(RMul(rt, rt), rt))
    IN  VFl(VScale(VScale(r, RMul(g, mass)), inv))

RECURSIVE walk(_, _, _, _, _)
walk(node, p, g, theta2, soft2) ==
    CASE node.kind = "Empty" -> VZero
      [] node.kind = "Leaf" ->
            LET r == VSub(node.pos, p)
                dist2 == RAdd(VLen2(r), soft2)
            IN  IF dist2 = Zero THEN VZero ELSE point_acc(g, node.mass, r, dist2)
      [] node.kind = "Internal" ->
            IF node.mass = Zero THEN VZero
            ELSE LET r == VSub(node.com, p)
                     d == RSqrt(VLen2(r))
                     s == size(node.quad)
                     sub == [i \in 1..4 |-> walk(node.children[i], p, g, theta2, soft2)]
                     all == VAdd(VAdd(VAdd(VAdd(VZero, sub[1]), sub[2]), sub[3]), sub[4])
                 IN  IF d = Zero THEN all
                     ELSE IF RLt(RDiv(RMul(s, s), RMul(d, d)), theta2)
                          THEN point_acc(g, node.mass, r, RAdd(RMul(d, d), soft2))
                          ELSE all

approx_acc(tree, p, g, theta, soft2) == walk(tree, p, g, RMul(theta, theta), soft2)

\* ------------------------------------------------------------ Class
from_mass(m) ==
    IF RLt(m, RI(500)) THEN "Asteroid"
    ELSE IF RLt(m, RI(20000)) THEN "Planet"
    ELSE IF RLt(m, RI(1000000)) THEN "Star"
    ELSE "BlackHole"

\* m.powf(0.33), rounded: cbrt(m) * 25/26, within 1% of m^0.33 on the Star range
\* [20 000, 1 000 000), where m^(1/300) lies between 1.033 and 1.048.
powf033(m) == RMul(RI(ICbrt(RFloor(m))), R(25, 26))

radius_for_mass(m) ==
    CASE from_mass(m) = "Asteroid" -> RClamp(RMul(RSqrt(m), R(12, 100)), R(12, 10), RI(6))
      [] from_mass(m) = "Planet" -> RClamp(RMul(RSqrt(m), R(7, 100)), RI(6), RI(16))
      [] from_mass(m) = "Star" -> RClamp(RMul(powf033(m), R(6, 10)), RI(16), RI(32))
      [] from_mass(m) = "BlackHole" ->
            RClamp(RMul(RSqrt(RSqrt(m)), R(9, 10)), RI(32), RI(60))

\* ------------------------------------------------------------ helpers on sets
RECURSIVE SetToSeq(_)
\* The ids of S in ascending order: the order a Query yields the entities in.
SetToSeq(S) ==
    IF S = {} THEN << >>
    ELSE LET m == CHOOSE x \in S : \A y \in S : x <= y
         IN  <<m>> \o SetToSeq(S \ {m})

\* Every order in which a HashMap's iterator may yield the keys K.
Orders(K) ==
    {f \in [1..Cardinality(K) -> K] : \A i, j \in 1..Cardinality(K) : i # j => f[i] # f[j]}

\* ------------------------------------------------------------ SpatialHash
\* SpatialHash::default()
hash_default == [cell |-> Zero, map |-> << >>]

cell_key(p, cell) == <<RFloor(RDiv(p.x, cell)), RFloor(RDiv(p.y, cell))>>

RECURSIVE sum_radius(_, _, _)
sum_radius(B, order, i) ==
    IF i > Len(order) THEN Zero
    ELSE RAdd(radius_for_mass(B[order[i]].mass), sum_radius(B, order, i + 1))

\* map.entry(key).or_default().push(e), for the entities of order from i on.
RECURSIVE bucket(_, _, _, _, _)
bucket(map, B, order, i, cell) ==
    IF i > Len(order) THEN map
    ELSE LET e == order[i]
             key == cell_key(B[e].pos, cell)
             m2 == IF key \in DOMAIN map
                   THEN [map EXCEPT ![key] = Append(@, e)]
                   ELSE [k \in DOMAIN map \cup {key} |->
                            IF k = key THEN <<e>> ELSE map[k]]
         IN  bucket(m2, B, order, i + 1, cell)
\* clear() forgotten: the lists of the previous rebuild stay.
clear_nothing(map) == map

\* hash.map.clear()
clear(map) == << >>

\* The SpatialHash spatial_hash_build leaves in its Local, which held `hash`, for the
\* bodies B.
spatial_hash_build(hash, B) ==
    LET order == SetToSeq(DOMAIN B)
        count == Len(order)
        total_radius == sum_radius(B, order, 1)
        cell == IF count > 0
                THEN RMax(RMul(RI(2), RDiv(total_radius, RI(count))), RI(1))
                ELSE RI(24)
    IN  [cell |-> cell, map |-> bucket(clear(hash.map), B, order, 1, cell)]
\* ------------------------------------------------------------ resolve_collisions
\* Only the cell itself, without its eight neighbours.
neighbor_offsets_own_cell == << <<0, 0>> >>

neighbor_offsets ==
    << <<-1, -1>>, <<0, -1>>, <<1, -1>>,
       <<-1, 0>>, <<0, 0>>, <<1, 0>>,
       <<-1, 1>>, <<0, 1>>, <<1, 1>> >>

\* The candidates vector built for one cell: the entities of its 3x3 neighbourhood.
RECURSIVE candidates_from(_, _, _)
candidates_from(hash, cell_key_, i) ==
    IF i > Len(neighbor_offsets) THEN << >>
    ELSE LET off == neighbor_offsets[i]
             key == <<cell_key_[1] + off[1], cell_key_[2] + off[2]>>
         IN  (IF key \in DOMAIN hash.map THEN hash.map[key] ELSE << >>)
                 \o candidates_from(hash, cell_key_, i + 1)

candidates(hash, cell_key_) == candidates_from(hash, cell_key_, 1)

radius_of(b) == radius_for_mass(b.mass)

\* The overlap test of both modes: (pb - pa).length_squared() <= rsum * rsum.
overlapping(ba, bb) ==
    LET rsum == RAdd(radius_of(ba), radius_of(bb))
    IN  ~RGt(VLen2(VSub(bb.pos, ba.pos)), RMul(rsum, rsum))
\* A rule under which the scanned body loses on equal mass.
a_wins_strictly(ba, bb) ==
    LET a_is_bh == ba.class = "BlackHole"
        b_is_bh == bb.class = "BlackHole"
    IN  IF a_is_bh /\ ~b_is_bh THEN TRUE
        ELSE IF b_is_bh /\ ~a_is_bh THEN FALSE
        ELSE RGt(ba.mass, bb.mass)

a_wins(ba, bb) ==
    LET a_is_bh == ba.class = "BlackHole"
        b_is_bh == bb.class = "BlackHole"
    IN  IF a_is_bh /\ ~b_is_bh THEN TRUE
        ELSE IF b_is_bh /\ ~a_is_bh THEN FALSE
        ELSE RGe(ba.mass, bb.mass)
\* The winner keeps its velocity instead of taking the pair's momentum.
merge_of_winner_velocity(B, set, a, b) ==
    LET ba == B[a]
        bb == B[b]
        bias == RAdd(RI(1), set.absorb_bias)
    IN  IF a_wins(ba, bb)
        THEN [winner |-> a, loser |-> b,
              new_mass |-> RMax(RAdd(RMul(ba.mass, bias), bb.mass), ba.mass),
              new_vel |-> ba.vel, player_died |-> bb.player]
        ELSE [winner |-> b, loser |-> a,
              new_mass |-> RMax(RAdd(RMul(bb.mass, bias), ba.mass), bb.mass),
              new_vel |-> bb.vel, player_died |-> ba.player]

\* The bias multiplies the loser's mass instead of the winner's.
merge_of_bias_on_loser(B, set, a, b) ==
    LET ba == B[a]
        bb == B[b]
        total == RAdd(ba.mass, bb.mass)
        bias == RAdd(RI(1), set.absorb_bias)
        new_vel == VDivS(VAdd(VScale(ba.vel, ba.mass), VScale(bb.vel, bb.mass)), total)
    IN  IF a_wins(ba, bb)
        THEN [winner |-> a, loser |-> b,
              new_mass |-> RMax(RAdd(ba.mass, RMul(bb.mass, bias)), ba.mass),
              new_vel |-> new_vel, player_died |-> bb.player]
        ELSE [winner |-> b, loser |-> a,
              new_mass |-> RMax(RAdd(bb.mass, RMul(ba.mass, bias)), bb.mass),
              new_vel |-> new_vel, player_died |-> ba.player]

\* The Merge pushed for an overlapping pair (a, b) of the read-only query.
merge_of(B, set, a, b) ==
    LET ba == B[a]
        bb == B[b]
        total == RAdd(ba.mass, bb.mass)
        bias == RAdd(RI(1), set.absorb_bias)
        new_vel == VDivS(VAdd(VScale(ba.vel, ba.mass), VScale(bb.vel, bb.mass)), total)
    IN  IF a_wins(ba, bb)
        THEN [winner |-> a, loser |-> b,
              new_mass |-> RMax(RAdd(RMul(ba.mass, bias), bb.mass), ba.mass),
              new_vel |-> new_vel, player_died |-> bb.player]
        ELSE [winner |-> b, loser |-> a,
              new_mass |-> RMax(RAdd(RMul(bb.mass, bias), ba.mass), bb.mass),
              new_vel |-> new_vel, player_died |-> ba.player]

\* The BodyAbsorbed sent with a Merge.
absorbed_of(B, m) ==
    [winner |-> m.winner, loser_mass |-> B[m.loser].mass,
     loser_vel |-> B[m.loser].vel, loser_class |-> B[m.loser].class]
\* A scan that writes each merge into the query as it pushes it.
RECURSIVE absorb_inner_live(_, _, _, _, _, _)
absorb_inner_live(st, B, set, a, cands, j) ==
    IF j > Len(cands) THEN st
    ELSE LET b == cands[j]
         IN  IF a = b \/ b \in st.removed \/ b \notin DOMAIN B
             THEN absorb_inner_live(st, B, set, a, cands, j + 1)
             ELSE IF ~overlapping(B[a], B[b])
             THEN absorb_inner_live(st, B, set, a, cands, j + 1)
             ELSE LET m == merge_of(B, set, a, b)
                      st2 == [st EXCEPT !.merges = Append(@, m),
                                        !.absorbed = Append(@, absorbed_of(B, m)),
                                        !.removed = @ \cup {m.loser}]
                  IN  IF m.winner = a
                      THEN absorb_inner_live(
                               st2,
                               [B EXCEPT ![a].mass = m.new_mass, ![a].vel = m.new_vel,
                                         ![a].class = from_mass(m.new_mass)],
                               set, a, cands, j + 1)
                      ELSE st2
\* A scan that does not skip the candidates already marked as removed.
RECURSIVE absorb_inner_unguarded(_, _, _, _, _, _)
absorb_inner_unguarded(st, B, set, a, cands, j) ==
    IF j > Len(cands) THEN st
    ELSE LET b == cands[j]
         IN  IF a = b \/ b \notin DOMAIN B
             THEN absorb_inner_unguarded(st, B, set, a, cands, j + 1)
             ELSE IF ~overlapping(B[a], B[b])
             THEN absorb_inner_unguarded(st, B, set, a, cands, j + 1)
             ELSE LET m == merge_of(B, set, a, b)
                      st2 == [st EXCEPT !.merges = Append(@, m),
                                        !.absorbed = Append(@, absorbed_of(B, m)),
                                        !.removed = @ \cup {m.loser}]
                  IN  IF m.winner = a
                      THEN absorb_inner_unguarded(st2, B, set, a, cands, j + 1)
                      ELSE st2

\* The inner loop of the Absorb scan: `for &b in &candidates`, from index j on.
\* st holds the scan's locals: merges, removed and the events sent.
RECURSIVE absorb_inner(_, _, _, _, _, _)
absorb_inner(st, B, set, a, cands, j) ==
    IF j > Len(cands) THEN st
    ELSE LET b == cands[j]
         IN  IF a = b \/ b \in st.removed \/ b \notin DOMAIN B
             THEN absorb_inner(st, B, set, a, cands, j + 1)
             ELSE IF ~overlapping(B[a], B[b])
             THEN absorb_inner(st, B, set, a, cands, j + 1)
             ELSE LET m == merge_of(B, set, a, b)
                      st2 == [st EXCEPT !.merges = Append(@, m),
                                        !.absorbed = Append(@, absorbed_of(B, m)),
                                        !.removed = @ \cup {m.loser}]
                  IN  IF m.winner = a
                      THEN absorb_inner(st2, B, set, a, cands, j + 1)
                      ELSE st2

\* `for &a in ents`, from index i on.
RECURSIVE absorb_ents(_, _, _, _, _, _)
absorb_ents(st, B, set, ents, cands, i) ==
    IF i > Len(ents) THEN st
    ELSE LET a == ents[i]
         IN  IF a \in st.removed \/ a \notin DOMAIN B
             THEN absorb_ents(st, B, set, ents, cands, i + 1)
             ELSE absorb_ents(absorb_inner(st, B, set, a, cands, 1),
                              B, set, ents, cands, i + 1)

\* `for (cell_key, ents) in hash.map.iter()`, in the order the iterator yields.
RECURSIVE absorb_cells(_, _, _, _, _, _)
absorb_cells(st, B, set, hash, order, k) ==
    IF k > Len(order) THEN st
    ELSE absorb_cells(absorb_ents(st, B, set, hash.map[order[k]],
                                  candidates(hash, order[k]), 1),
                      B, set, hash, order, k + 1)

\* The apply pass over merges, from index i on.  ap holds the bodies as written so
\* far, already_gone, the despawn commands queued, the PlayerDied events sent and
\* SimStats.
RECURSIVE absorb_apply(_, _, _)
absorb_apply(ap, merges, i) ==
    IF i > Len(merges) THEN ap
    ELSE LET m == merges[i]
         IN  IF m.loser \in ap.already_gone
             THEN absorb_apply(ap, merges, i + 1)
             ELSE IF m.winner \notin DOMAIN ap.bodies
             THEN absorb_apply(ap, merges, i + 1)
             ELSE LET w == [ap.bodies[m.winner] EXCEPT
                               !.mass = m.new_mass,
                               !.class = from_mass(m.new_mass),
                               !.vel = m.new_vel]
                      ap1 == [ap EXCEPT !.bodies[m.winner] = w,
                                        !.died = @ + (IF m.player_died THEN 1 ELSE 0),
                                        !.applied = Append(@, m)]
                      ap2 == IF m.loser \in DOMAIN ap.bodies
                             THEN [ap1 EXCEPT !.already_gone = @ \cup {m.loser},
                                              !.stats = IF @ > 0 THEN @ - 1 ELSE 0]
                             ELSE ap1
                  IN  absorb_apply(ap2, merges, i + 1)

\* ---- exact arithmetic with dist = sqrt(dist2) in the Elastic block
\* The Elastic block divides by dist = sqrt(dist2) and multiplies by it again.  To
\* keep that exact its numbers are modelled as a + b * sqrt(D), D = dist2, a pair
\* of rationals [a, b]; when D is the square of a rational, b is always 0.
IsSquare(D) == ISqrt(D.n) * ISqrt(D.n) = D.n /\ ISqrt(D.d) * ISqrt(D.d) = D.d

SR(a) == [a |-> a, b |-> Zero]

\* dist2.sqrt()
SRoot(D) == IF IsSquare(D) THEN SR(R(ISqrt(D.n), ISqrt(D.d))) ELSE [a |-> Zero, b |-> RI(1)]

SAdd(x, y) == [a |-> RAdd(x.a, y.a), b |-> RAdd(x.b, y.b)]

SSub(x, y) == [a |-> RSub(x.a, y.a), b |-> RSub(x.b, y.b)]

SMul(x, y, D) ==
    [a |-> RAdd(RMul(x.a, y.a), RMul(RMul(x.b, y.b), D)),
     b |-> RAdd(RMul(x.a, y.b), RMul(x.b, y.a))]

\* num / nrm, component by component.
SOver(num, nrm) == [a |-> RDiv(num.a, nrm), b |-> RDiv(num.b, nrm)]

\* x / y = x * conj(y) / (y.a^2 - y.b^2 * D); over zero it is non-finite.
SDiv(x, y, D) ==
    SOver(SMul(x, [a |-> y.a, b |-> RNeg(y.b)], D),
          RSub(RMul(y.a, y.a), RMul(RMul(y.b, y.b), D)))

SFinite(x) == IsFinite(x.a) /\ IsFinite(x.b)

\* The f32 stored for a + b * sqrt(D): exact when b = 0, else with sqrt rounded.
SStore(x, D) == IF x.b = Zero THEN x.a ELSE RAdd(x.a, RMul(x.b, RSqrt(D)))

SV(x, y) == [x |-> x, y |-> y]

\* A Vec2 of rationals as a vector of such numbers.
SVOf(v) == SV(SR(v.x), SR(v.y))

SVAdd(u, v) == SV(SAdd(u.x, v.x), SAdd(u.y, v.y))

SVSub(u, v) == SV(SSub(u.x, v.x), SSub(u.y, v.y))

SVScale(u, k, D) == SV(SMul(u.x, k, D), SMul(u.y, k, D))

SVDivS(u, k, D) == SV(SDiv(u.x, k, D), SDiv(u.y, k, D))

SVDot(u, v, D) == SAdd(SMul(u.x, v.x, D), SMul(u.y, v.y, D))

SVStore(u, D) == V(SStore(u.x, D), SStore(u.y, D))

\* The collision normal of a pair: delta / dist, with D = delta.length_squared().
normal_of(delta, D) == SVDivS(SVOf(delta), SRoot(D), D)
\* The normal with its components exchanged but not turned.
tangent_of_exchanged(normal) == SV(normal.y, normal.x)

tangent_of(normal) == SV([a |-> RNeg(normal.y.a), b |-> RNeg(normal.y.b)], normal.x)

\* A position moved by normal * overlap * 0.5 in the direction sign.
separate(p, normal, half_overlap, sign, D) ==
    SVAdd(SVOf(p), SVScale(normal, SMul(SR(RI(sign)), half_overlap, D), D))
\* The restitution term weighted with the body's own mass.
normal_velocity_after_own_mass(e, m_self, m_other, v_self, v_other, D) ==
    SDiv(SAdd(SMul(SMul(e, m_self, D), SSub(v_other, v_self), D),
              SAdd(SMul(m_self, v_self, D), SMul(m_other, v_other, D))),
         SAdd(m_self, m_other), D)

\* va_n_new (and, with the two bodies exchanged, vb_n_new) of the 1-D collision:
\* (e * m_other * (v_other - v_self) + ma * va_n + mb * vb_n) / (ma + mb).
normal_velocity_after(e, m_self, m_other, v_self, v_other, D) ==
    SDiv(SAdd(SMul(SMul(e, m_other, D), SSub(v_other, v_self), D),
              SAdd(SMul(m_self, v_self, D), SMul(m_other, v_other, D))),
         SAdd(m_self, m_other), D)

\* normal * vn + tangent * vt
recompose(normal, tangent, vn, vt, D) ==
    SVAdd(SVScale(normal, vn, D), SVScale(tangent, vt, D))

\* The ElasticResult of body `self` hit by `other`, given the normal, the tangent and
\* the four velocity components.
elastic_result(id, self, other, e, normal, tangent, vn_self, vt_self, vn_other, half_overlap, sign, D) ==
    [entity |-> id,
     new_vel |-> SVStore(recompose(normal, tangent,
                            normal_velocity_after(e, SR(self.mass), SR(other.mass),
                                                  vn_self, vn_other, D),
                            vt_self, D), D),
     new_pos |-> SVStore(separate(self.pos, normal, half_overlap, sign, D), D)]

\* The two results of a pair, given its normal and tangent.
elastic_results(a, b, ba, bb, e, normal, tangent, half_overlap, D) ==
    << elastic_result(a, ba, bb, e, normal, tangent,
                      SVDot(SVOf(ba.vel), normal, D), SVDot(SVOf(ba.vel), tangent, D),
                      SVDot(SVOf(bb.vel), normal, D), half_overlap, -1, D),
       elastic_result(b, bb, ba, e, normal, tangent,
                      SVDot(SVOf(bb.vel), normal, D), SVDot(SVOf(bb.vel), tangent, D),
                      SVDot(SVOf(ba.vel), normal, D), half_overlap, 1, D) >>

elastic_with_normal(a, b, ba, bb, e, normal, rsum, D) ==
    elastic_results(a, b, ba, bb, e, normal, tangent_of(normal),
                    SMul(SSub(SR(rsum), SRoot(D)), SR(R(1, 2)), D), D)

elastic_at(a, b, ba, bb, e, delta, D) ==
    elastic_with_normal(a, b, ba, bb, e, normal_of(delta, D),
                        RAdd(radius_of(ba), radius_of(bb)), D)

\* The two ElasticResults pushed for a pair that passed the test
\* dist2 <= rsum * rsum && dist2 > 0.
elastic_pair(B, set, a, b) ==
    elastic_at(a, b, B[a], B[b], SR(set.restitution),
               VSub(B[b].pos, B[a].pos), VLen2(VSub(B[b].pos, B[a].pos)))
\* The test without `dist2 > 0.0`.
elastic_hit_any_distance(ba, bb) ==
    LET dist2 == VLen2(VSub(bb.pos, ba.pos))
        rsum == RAdd(radius_of(ba), radius_of(bb))
    IN  RLe(dist2, RMul(rsum, rsum))

\* The Elastic test on a candidate pair.
elastic_hit(ba, bb) ==
    LET dist2 == VLen2(VSub(bb.pos, ba.pos))
        rsum == RAdd(radius_of(ba), radius_of(bb))
    IN  RLe(dist2, RMul(rsum, rsum)) /\ RGt(dist2, Zero)
\* A scan that pairs the scanned body with candidates already processed.
RECURSIVE elastic_inner_unguarded(_, _, _, _, _, _)
elastic_inner_unguarded(st, B, set, a, cands, j) ==
    IF j > Len(cands) THEN st
    ELSE LET b == cands[j]
         IN  IF a = b \/ b \notin DOMAIN B
             THEN elastic_inner_unguarded(st, B, set, a, cands, j + 1)
             ELSE IF elastic_hit(B[a], B[b])
             THEN [st EXCEPT !.updates = @ \o elastic_pair(B, set, a, b),
                             !.processed = @ \cup {a, b}]
             ELSE elastic_inner_unguarded(st, B, set, a, cands, j + 1)

\* The inner loop of the Elastic scan; st holds updates and processed.
RECURSIVE elastic_inner(_, _, _, _, _, _)
elastic_inner(st, B, set, a, cands, j) ==
    IF j > Len(cands) THEN st
    ELSE LET b == cands[j]
         IN  IF a = b \/ b \in st.processed \/ b \notin DOMAIN B
             THEN elastic_inner(st, B, set, a, cands, j + 1)
             ELSE IF elastic_hit(B[a], B[b])
             THEN [st EXCEPT !.updates = @ \o elastic_pair(B, set, a, b),
                             !.processed = @ \cup {a, b}]
             ELSE elastic_inner(st, B, set, a, cands, j + 1)

RECURSIVE elastic_ents(_, _, _, _, _, _)
elastic_ents(st, B, set, ents, cands, i) ==
    IF i > Len(ents) THEN st
    ELSE LET a == ents[i]
         IN  IF a \in st.processed \/ a \notin DOMAIN B
             THEN elastic_ents(st, B, set, ents, cands, i + 1)
             ELSE elastic_ents(elastic_inner(st, B, set, a, cands, 1),
                               B, set, ents, cands, i + 1)

RECURSIVE elastic_cells(_, _, _, _, _, _)
elastic_cells(st, B, set, hash, order, k) ==
    IF k > Len(order) THEN st
    ELSE elastic_cells(elastic_ents(st, B, set, hash.map[order[k]],
                                    candidates(hash, order[k]), 1),
                       B, set, hash, order, k + 1)

\* `for update in updates`: the write-back of the Elastic results.
RECURSIVE elastic_apply(_, _, _)
elastic_apply(B, updates, i) ==
    IF i > Len(updates) THEN B
    ELSE LET u == updates[i]
         IN  IF u.entity \in DOMAIN B
             THEN elastic_apply([B EXCEPT ![u.entity].vel = u.new_vel,
                                          ![u.entity].pos = u.new_pos],
                                updates, i + 1)
             ELSE elastic_apply(B, updates, i + 1)

\* The scan's locals before the first cell.
scan_init ==
    [merges |-> << >>, removed |-> {}, absorbed |-> << >>,
     updates |-> << >>, processed |-> {}]

\* What the Absorb branch leaves, given its scan sc and its apply pass ap.
absorb_result(B, sc, ap) ==
    [bodies |-> [e \in DOMAIN B \ ap.already_gone |-> ap.bodies[e]],
     stats |-> ap.stats, merges |-> sc.merges, removed |-> sc.removed,
     absorbed |-> sc.absorbed, applied |-> ap.applied,
     already_gone |-> ap.already_gone, died |-> ap.died,
     updates |-> << >>, processed |-> {}]

absorb_branch(B, stats, sc) ==
    absorb_result(B, sc,
                  absorb_apply([bodies |-> B, already_gone |-> {}, died |-> 0,
                                applied |-> << >>, stats |-> stats], sc.merges, 1))

\* What the Elastic branch leaves, given its scan sc.
elastic_branch(B, stats, sc) ==
    [bodies |-> elastic_apply(B, sc.updates, 1),
     stats |-> stats, merges |-> << >>, removed |-> {},
     absorbed |-> << >>, applied |-> << >>,
     already_gone |-> {}, died |-> 0,
     updates |-> sc.updates, processed |-> sc.processed]

\* resolve_collisions on the bodies B with the SpatialHash `hash` of its Local, the
\* map's iterator yielding the cells in `order`.  The result holds the bodies after
\* the system's writes and its despawn commands, SimStats, and the system's locals and
\* events as they are when it returns (applied: the merges the apply pass did not
\* skip).
resolve_collisions(B, set, stats, hash, order) ==
    IF set.collision_mode = "Absorb"
    THEN absorb_branch(B, stats, absorb_cells(scan_init, B, set, hash, order, 1))
    ELSE elastic_branch(B, stats, elastic_cells(scan_init, B, set, hash, order, 1))

\* ------------------------------------------------------------ integrator, forces
effective_dt(set) == RMul(set.dt, set.time_scale)
\* A kick1_drift that does not look at `running`.
kick1_drift_always(B, set) ==
    [e \in DOMAIN B |->
        [B[e] EXCEPT
            !.pos = VFl(VAdd(B[e].pos,
                             VScale(VAdd(B[e].vel,
                                         VScale(VScale(B[e].acc, effective_dt(set)),
                                                R(1, 2))),
                                    effective_dt(set)))),
            !.vel = VFl(VAdd(B[e].vel,
                             VScale(VScale(B[e].acc, effective_dt(set)), R(1, 2))))]]

kick1_drift(B, set) ==
    IF ~set.running THEN B
    ELSE LET dt == effective_dt(set)
         IN  [e \in DOMAIN B |->
                LET v_half == VAdd(B[e].vel, VScale(VScale(B[e].acc, dt), R(1, 2)))
                    p == VAdd(B[e].pos, VScale(v_half, dt))
                IN  [B[e] EXCEPT !.pos = VFl(p), !.vel = VFl(v_half)]]

RECURSIVE max_extent_from(_, _, _, _)
max_extent_from(B, order, i, acc) ==
    IF i > Len(order) THEN acc
    ELSE LET p == B[order[i]].pos
             ax == IF RLt(p.x, Zero) THEN RNeg(p.x) ELSE p.x
             ay == IF RLt(p.y, Zero) THEN RNeg(p.y) ELSE p.y
         IN  max_extent_from(B, order, i + 1, RMax(acc, RMax(ax, ay)))

RECURSIVE insert_all(_, _, _, _)
insert_all(qt, B, order, i) ==
    IF i > Len(order) THEN qt
    ELSE insert_all(insert(qt, B[order[i]].pos, B[order[i]].mass), B, order, i + 1)

\* TreeState::default()
tree_default == [root |-> [kind |-> "None"], bounds |-> Quad(VZero, RI(10000))]
\* A rebuild that keeps the bounds it finds.
rebuild_quadtree_old_bounds(tr, B) ==
    [root |-> build_mass_centers(insert_all(new_tree(tr.bounds), B, SetToSeq(DOMAIN B), 1)),
     bounds |-> tr.bounds]

\* A rebuild that sizes the bounds by the bodies alone.
rebuild_quadtree_by_bodies(tr, B) ==
    LET order == SetToSeq(DOMAIN B)
        sz == RMax(RMul(max_extent_from(B, order, 1, Zero), R(12, 10)), RI(2000))
    IN  [root |-> build_mass_centers(insert_all(new_tree(Quad(VZero, sz)), B, order, 1)),
         bounds |-> Quad(VZero, sz)]

rebuild_quadtree(tr, B) ==
    LET order == SetToSeq(DOMAIN B)
        max_extent == max_extent_from(B, order, 1, tr.bounds.half_size)
        sz == RMax(RMul(max_extent, R(12, 10)), RI(2000))
        bounds == Quad(VZero, sz)
        qt == insert_all(new_tree(bounds), B, order, 1)
    IN  [root |-> build_mass_centers(qt), bounds |-> bounds]

\* The theta and the softening apply_bh_forces uses for a body of density factor d.
theta_for(set, d) ==
    IF set.adaptive_theta
    THEN RSub(set.theta_range.y, RMul(d, RSub(set.theta_range.y, set.theta_range.x)))
    ELSE set.theta

softening_for(set, d) ==
    IF set.adaptive_softening
    THEN RAdd(set.softening_range.x,
              RMul(d, RSub(set.softening_range.y, set.softening_range.x)))
    ELSE set.softening

apply_bh_forces(B, set, tr) ==
    IF tr.root.kind = "None" \/ ~set.running THEN B
    ELSE [e \in DOMAIN B |->
            LET density == get_density_factor(tr.root, B[e].pos)
                softening == softening_for(set, density)
            IN  [B[e] EXCEPT !.acc =
                    approx_acc(tr.root, B[e].pos, set.g, theta_for(set, density),
                               RMul(softening, softening))]]

\* sqrt(a) rounded up to the grid 1/SqrtRes.
root_up(a) == IF RMul(RSqrt(a), RSqrt(a)) = a THEN RSqrt(a) ELSE RAdd(RSqrt(a), R(1, SqrtRes))

\* A kick2 that does not clamp.
clamp_length_max_unclamped(v, max) == v

\* Vec2::clamp_length_max: max * (v / sqrt(length_sq)) when length_sq > max * max,
\* rounded toward zero: the root is rounded up and the components toward zero.
clamp_length_max(v, max) ==
    IF ~RGt(VLen2(v), RMul(max, max)) THEN v
    ELSE VFl(VDivS(VScale(v, max), root_up(VLen2(v))))
\* The velocities kick2 computes before it clamps them.
kick2_unclamped(B, set) ==
    [e \in DOMAIN B |->
        [B[e] EXCEPT !.vel = VFl(VAdd(B[e].vel,
                                      VScale(VScale(B[e].acc, effective_dt(set)),
                                             R(1, 2))))]]

kick2(B, set) ==
    IF ~set.running THEN B
    ELSE LET dt == effective_dt(set)
         IN  [e \in DOMAIN B |->
                LET v_full == VAdd(B[e].vel, VScale(VScale(B[e].acc, dt), R(1, 2)))
                IN  [B[e] EXCEPT !.vel = clamp_length_max(VFl(v_full), set.max_vel)]]

\* ------------------------------------------------------------ state
VARIABLES
    bodies,        \* entity id -> Body and Transform: pos, mass, vel, acc, class, player
    settings,      \* SimSettings
    stats,         \* SimStats
    sim_state,     \* SimState: "Parallel" or "Sequential"
    tree,          \* TreeState
    hash_build,    \* the Local<SpatialHash> of spatial_hash_build
    hash_resolve,  \* the Local<SpatialHash> of resolve_collisions
    done,          \* the core systems that have run in the current frame
    frame,         \* the number of the current frame
    before,        \* the bodies as resolve_collisions (KickSpec: kick2) last found them
    last,          \* what resolve_collisions last returned (see resolve_collisions)
    game           \* SeededRng, NextState<SimState>, the pending events, the last draws

vars ==
    <<bodies, settings, stats, sim_state, tree, hash_build, hash_resolve, done, frame,
      before, last, game>>
\* A spawn that gives every body the class of the smallest.
Body_unclassed(pos, mass, vel, player) ==
    [pos |-> pos, mass |-> mass, vel |-> vel, acc |-> VZero,
     class |-> "Asteroid", player |-> player]

\* A Body spawned with Class::from_mass(mass) and acc = 0, as every spawn does.
Body(pos, mass, vel, player) ==
    [pos |-> pos, mass |-> mass, vel |-> vel, acc |-> VZero,
     class |-> from_mass(mass), player |-> player]

\* SimSettings::default(), the fields the core systems read.
settings_default ==
    [g |-> RI(120), dt |-> R(8, 1000), softening |-> RI(4), max_vel |-> RI(1800),
     theta |-> R(6, 10), running |-> TRUE, restitution |-> R(8, 10),
     absorb_bias |-> R(3, 100), collision_mode |-> "Absorb", deterministic |-> FALSE,
     time_scale |-> RI(1), adaptive_theta |-> TRUE, theta_range |-> V(R(4, 10), RI(1)),
     adaptive_softening |-> TRUE, softening_range |-> V(RI(2), RI(10)),
     spawn_limit |-> 50000, system_type |-> "SingleStar", scenario |-> "CalmBelts"]

\* No SeededRng resource, AppState::Playing, no state change asked for, no event
\* pending, nothing drawn.
game_default ==
    [seeded_rng |-> [present |-> FALSE, pos |-> 0], next_state |-> "None",
     app_state |-> "Playing", next_app_state |-> "None", player_died |-> FALSE,
     bursts |-> << >>, reset |-> FALSE, drags |-> 0, hazards |-> 0, resets |-> 0,
     drew |-> [source |-> "none", state |-> "Parallel", by |-> "none"]]

\* What resolve_collisions has returned before it ever ran: nothing.
last_none ==
    [bodies |-> << >>, stats |-> 0, merges |-> << >>, removed |-> {},
     absorbed |-> << >>, applied |-> << >>, already_gone |-> {}, died |-> 0,
     updates |-> << >>, processed |-> {}, ran |-> FALSE, hash |-> hash_default]

\* ---- the inputs of the frame loop
\* Position, mass and velocity of the bodies a scenario may spawn.
SimBodies ==
    {<<VI(-3, -4), RI(100), VI(0, 0)>>,
     <<VI(2, 0), RI(400), VI(250, -125)>>,
     <<VI(5, 6), RI(400), VI(0, 0)>>}

\* Every population of at most MaxSimBodies bodies.
SimPopulations ==
    UNION {
        [1..n -> {Body(t[1], t[2], t[3], FALSE) : t \in SimBodies}]
        : n \in 0..MaxSimBodies}

\* The settings the panel can leave: the defaults with Running, Collision Mode and
\* Adaptive Theta (with the Theta slider at 0) changed.
SimSettingsSet ==
    {[settings_default EXCEPT !.running = r, !.collision_mode = c,
                              !.adaptive_theta = a, !.theta = Zero,
                              !.deterministic = d] :
        r \in BOOLEAN, c \in {"Absorb", "Elastic"}, a \in BOOLEAN, d \in BOOLEAN}

Init ==
    /\ \E B \in SimPopulations :
          bodies = [e \in DOMAIN B |-> [B[e] EXCEPT !.player = (e = 1)]]
    /\ settings \in SimSettingsSet
    /\ stats = Cardinality(DOMAIN bodies)
    /\ sim_state = IF settings.deterministic THEN "Sequential" ELSE "Parallel"
    /\ tree = tree_default
    /\ hash_build = hash_default
    /\ hash_resolve = hash_default
    /\ done = {}
    /\ frame = 1
    /\ before = << >>
    /\ last = last_none
    /\ game = game_default

\* ---- the frame loop
\* The core systems in the order both system sets list them.
core_systems ==
    <<"kick1_drift", "rebuild_quadtree", "apply_bh_forces", "kick2",
      "spatial_hash_build", "resolve_collisions">>

index_of(sys) == CHOOSE i \in 1..Len(core_systems) : core_systems[i] = sys
\* The set without .chain(): a system may run whatever has run before it.
may_run_unchained(sys) == sys \notin done

\* A system may run once per frame; the Sequential set is chained, the Parallel set
\* is not ordered.
may_run(sys) ==
    /\ sys \notin done
    /\ sim_state = "Sequential" =>
           \A i \in 1..(index_of(sys) - 1) : core_systems[i] \in done

ran(sys) == done' = done \cup {sys}

sys_kick1_drift ==
    /\ may_run("kick1_drift")
    /\ bodies' = kick1_drift(bodies, settings)
    /\ ran("kick1_drift")
    /\ UNCHANGED <<settings, stats, sim_state, tree, hash_build, hash_resolve, frame,
                   before, last, game>>

sys_rebuild_quadtree ==
    /\ may_run("rebuild_quadtree")
    /\ tree' = rebuild_quadtree(tree, bodies)
    /\ ran("rebuild_quadtree")
    /\ UNCHANGED <<bodies, settings, stats, sim_state, hash_build, hash_resolve, frame,
                   before, last, game>>

sys_apply_bh_forces ==
    /\ may_run("apply_bh_forces")
    /\ bodies' = apply_bh_forces(bodies, settings, tree)
    /\ ran("apply_bh_forces")
    /\ UNCHANGED <<settings, stats, sim_state, tree, hash_build, hash_resolve, frame,
                   before, last, game>>

sys_kick2 ==
    /\ may_run("kick2")
    /\ bodies' = kick2(bodies, settings)
    /\ ran("kick2")
    /\ UNCHANGED <<settings, stats, sim_state, tree, hash_build, hash_resolve, frame,
                   before, last, game>>

sys_spatial_hash_build ==
    /\ may_run("spatial_hash_build")
    /\ hash_build' = spatial_hash_build(hash_build, bodies)
    /\ ran("spatial_hash_build")
    /\ UNCHANGED <<bodies, settings, stats, sim_state, tree, hash_resolve, frame,
                   before, last, game>>

\* The writes of resolve_collisions, given what it returned for the hash it read.
resolve_writes(res, hash) ==
    /\ bodies' = res.bodies
    /\ stats' = res.stats
    /\ before' = bodies
    /\ last' = res @@ [ran |-> TRUE, hash |-> hash]

\* resolve_collisions reads the SpatialHash of its own Local, which no system writes.
sys_resolve_collisions ==
    /\ may_run("resolve_collisions")
    /\ \E order \in Orders(DOMAIN hash_resolve.map) :
          resolve_writes(resolve_collisions(bodies, settings, stats, hash_resolve, order),
                         hash_resolve)
    /\ ran("resolve_collisions")
    /\ UNCHANGED <<settings, sim_state, tree, hash_build, hash_resolve, frame, game>>

\* The schedule has run every system of the frame; the next frame starts.
end_frame ==
    /\ done = {core_systems[i] : i \in 1..Len(core_systems)}
    /\ frame < MaxFrames
    /\ frame' = frame + 1
    /\ done' = {}
    /\ UNCHANGED <<bodies, settings, stats, sim_state, tree, hash_build, hash_resolve,
                   before, last, game>>

Next ==
    \/ sys_kick1_drift
    \/ sys_rebuild_quadtree
    \/ sys_apply_bh_forces
    \/ sys_kick2
    \/ sys_spatial_hash_build
    \/ sys_resolve_collisions
    \/ end_frame

Spec == Init /\ [][Next]_vars

\* ------------------------------------------------------------ the resolver alone
\* spatial_hash_build and resolve_collisions applied in turn to chosen populations,
\* resolve_collisions being handed the SpatialHash that spatial_hash_build has just
\* filled: the two stages as functions of their inputs.

\* Position, mass and velocity of the bodies of a population.  The first two overlap
\* obliquely across a cell border, the third coincides with the first, the fourth
\* overlaps all three and the fifth is far from every other.
ResolveBodies ==
    {<<VI(0, 0), RI(100), VI(3, -1)>>,
     <<VI(-1, 2), RI(100), VI(-2, 5)>>,
     <<VI(0, 0), RI(400), VI(0, 0)>>,
     <<VI(2, 0), RI(400), VI(-4, 2)>>,
     <<VI(70, 30), RI(100), VI(1, 1)>>}

\* A black hole over the first four.  It is met in Absorb mode only: in the Elastic
\* block its mass takes the exact fractions beyond the 32-bit integers of TLC.
ResolveBlackHole == <<VI(20, 0), RI(1000000), VI(0, 1)>>

ResolveTemplates(mode) ==
    IF mode = "Absorb" THEN ResolveBodies \cup {ResolveBlackHole} ELSE ResolveBodies

ResolvePopulations(mode) ==
    UNION {
        [1..n -> {Body(t[1], t[2], t[3], FALSE) : t \in ResolveTemplates(mode)}]
        : n \in 0..MaxBodies}

\* Absorb with Absorb Bias 0 and 0.1, Elastic with Restitution 0, 0.8 and 1.
ResolveSettingsSet ==
    {[settings_default EXCEPT !.collision_mode = "Absorb", !.absorb_bias = b] :
        b \in {Zero, R(1, 10)}}
    \cup
    {[settings_default EXCEPT !.collision_mode = "Elastic", !.restitution = e] :
        e \in {Zero, R(8, 10), RI(1)}}

ResolveInit ==
    /\ settings \in ResolveSettingsSet
    /\ \E B \in ResolvePopulations(settings.collision_mode) :
          bodies = [e \in DOMAIN B |-> [B[e] EXCEPT !.player = (e = 1)]]
    /\ stats = Cardinality(DOMAIN bodies)
    /\ sim_state = "Sequential"
    /\ tree = tree_default
    /\ hash_build = hash_default
    /\ hash_resolve = hash_default
    /\ done = {}
    /\ frame = 0
    /\ before = << >>
    /\ last = last_none
    /\ game = game_default

\* spatial_hash_build is called before resolve_collisions and once more after it, on
\* the bodies resolve_collisions has left.
call_spatial_hash_build ==
    /\ \/ done = {}
       \/ done = {"spatial_hash_build", "resolve_collisions"} /\ frame = 1
    /\ hash_build' = spatial_hash_build(hash_build, bodies)
    /\ done' = {"spatial_hash_build"}
    /\ frame' = frame + 1
    /\ UNCHANGED <<bodies, settings, stats, sim_state, tree, hash_resolve, before, last, game>>

call_resolve_collisions ==
    /\ done = {"spatial_hash_build"}
    /\ frame = 1
    /\ \E order \in Orders(DOMAIN hash_build.map) :
          resolve_writes(resolve_collisions(bodies, settings, stats, hash_build, order),
                         hash_build)
    /\ ran("resolve_collisions")
    /\ UNCHANGED <<settings, sim_state, tree, hash_build, hash_resolve, frame, game>>

ResolveNext ==
    \/ call_spatial_hash_build
    \/ call_resolve_collisions

ResolveSpec == ResolveInit /\ [][ResolveNext]_vars

\* ------------------------------------------------------------ the game
\* The systems around the core ones: the spawns, the reset and the Deterministic
\* checkbox, with the collisions of a frame as one step.

\* The bodies without the Player component a world holds at most, the iterations of a spawn loop that are run, the
\* drags, hazards and resets of a run, and the frames whose collisions are resolved.
MaxGameBodies == 3
MaxSpawn == 1
MaxDrags == 1
MaxHazards == 1
MaxResets == 1
MaxGameFrames == 1

\* ---- random numbers
\* The values gen::<f32>() takes.
Units == {Zero, R(1, 2)}

\* The n-th value of the stream of StdRng::from_seed([0; 32]): one fixed stream, of
\* period 2 here.
seeded_unit(n) == IF n % 2 = 0 THEN R(1, 2) ELSE Zero

\* The k values a system may draw: from a seeded generator at position n the next k
\* of its stream, from thread_rng any (here k times any one value).
draws(seeded, n, k) ==
    IF seeded THEN {[i \in 1..k |-> seeded_unit(n + i - 1)]}
    ELSE {[i \in 1..k |-> u] : u \in Units}

\* rng.gen_range(lo..hi) for the unit value u drawn.
gen_range(u, lo, hi) == RAdd(lo, RMul(u, RSub(hi, lo)))

\* Vec2::from_angle(u * TAU) for the unit values of Units.
from_angle(u) == IF u = Zero THEN VI(1, 0) ELSE VI(-1, 0)

\* Vec2::normalize: NaN components for the zero vector.
normalize(v) == VDivS(v, RSqrt(VLen2(v)))

normalize_or_zero(v) == IF VLen2(v) = Zero THEN VZero ELSE normalize(v)

\* ---- spawning
\* The entity id commands.spawn hands out.
fresh(B) == CHOOSE e \in 1..(Cardinality(DOMAIN B) + 1) : e \notin DOMAIN B

spawn(B, b) == [e \in DOMAIN B \cup {fresh(B)} |-> IF e \in DOMAIN B THEN B[e] ELSE b]

Scenarios == {"CalmBelts", "BinaryMayhem", "StarNursery", "BHArena"}

from_scenario(scenario) ==
    CASE scenario = "CalmBelts" ->
            [settings_default EXCEPT !.scenario = scenario, !.restitution = Zero]
      [] scenario = "BinaryMayhem" ->
            [settings_default EXCEPT
                !.scenario = scenario, !.g = RI(200), !.dt = R(5, 1000),
                !.softening = RI(8), !.max_vel = RI(2500), !.theta = R(8, 10),
                !.system_type = "BinaryStar", !.collision_mode = "Elastic",
                !.restitution = R(9, 10), !.absorb_bias = Zero,
                !.theta_range = V(R(6, 10), R(12, 10)),
                !.softening_range = V(RI(5), RI(15))]
      [] scenario = "StarNursery" ->
            [settings_default EXCEPT
                !.scenario = scenario, !.g = RI(150), !.dt = R(1, 100),
                !.softening = RI(6), !.max_vel = RI(2000), !.theta = R(7, 10),
                !.system_type = "Cluster", !.collision_mode = "Absorb",
                !.restitution = Zero, !.absorb_bias = R(5, 100),
                !.theta_range = V(R(5, 10), R(11, 10)),
                !.softening_range = V(RI(3), RI(12))]
      [] scenario = "BHArena" ->
            [settings_default EXCEPT
                !.scenario = scenario, !.g = RI(300), !.dt = R(3, 1000),
                !.softening = RI(10), !.max_vel = RI(3000), !.theta = R(9, 10),
                !.system_type = "SingleStar", !.collision_mode = "Absorb",
                !.restitution = Zero, !.absorb_bias = R(1, 10),
                !.theta_range = V(R(7, 10), R(15, 10)),
                !.softening_range = V(RI(8), RI(20))]

\* A body of a belt of radius r, for the three values us it draws.
belt_body_at(pos, mass) ==
    Body(pos, mass, VScale(normalize(V(RNeg(pos.y), pos.x)),
                           RMul(RSqrt(RSqrt(VLen2(pos))), R(32, 10))), FALSE)

belt_body(r, us) ==
    belt_body_at(VScale(from_angle(us[1]),
                        RSub(RAdd(RI(r), RMul(us[2], RI(40))), RI(20))),
                 gen_range(us[3], RI(6), RI(60)))

\* A body of the cluster.
cluster_body(us) ==
    Body(V(gen_range(us[1], RI(-1000), RI(1000)), gen_range(us[2], RI(-1000), RI(1000))),
         gen_range(us[3], RI(1000), RI(50000)), VZero, FALSE)

\* The two stars of a binary, at distance r of the origin.
binary_v(g, m, r) == RSqrt(RDiv(RMul(g, RI(m)), RI(2 * r)))

binary_bodies(g) ==
    spawn(spawn(<< >>, Body(VI(-300, 0), RI(400000), V(Zero, binary_v(g, 200000, 300)),
                            FALSE)),
          Body(VI(300, 0), RI(200000), V(Zero, RNeg(binary_v(g, 400000, 300))), FALSE))

\* The generator spawn_initial_bodies_inner draws from.
initial_source(s) == IF s.deterministic THEN "seeded" ELSE "thread"

\* The values spawn_initial_bodies_inner may draw: its seeded generator is a new one.
initial_draws(s) ==
    IF s.system_type = "BinaryStar" THEN {<< >>}
    ELSE draws(s.deterministic, 0, 3 * MaxSpawn)

\* spawn_initial_bodies_inner for the values us drawn: the bodies and the number it
\* adds to the SimStats.
spawn_initial_bodies_inner(s, us) ==
    CASE s.system_type = "SingleStar" ->
            [bodies |-> spawn(spawn(<< >>, Body(VZero, RI(600000), VZero, FALSE)),
                              belt_body(260, us)),
             counted |-> MaxSpawn]
      [] s.system_type = "BinaryStar" ->
            [bodies |-> binary_bodies(s.g), counted |-> 0]
      [] s.system_type = "Cluster" ->
            [bodies |-> spawn(<< >>, cluster_body(us)), counted |-> MaxSpawn]

spawn_player(B) == spawn(B, Body(VI(340, 0), RI(80), VI(0, 130), TRUE))

\* The body spawn_bursts spawns for the event e and the five values us.
burst_body_at(e, offset, us) ==
    Body(VAdd(e.center, offset),
         RMul(e.base_mass, gen_range(us[5], R(1, 2), R(3, 2))),
         VAdd(VScale(normalize_or_zero(V(RNeg(offset.y), offset.x)), e.speed),
              V(gen_range(us[3], RI(-20), RI(20)), gen_range(us[4], RI(-20), RI(20)))),
         FALSE)

burst_body(e, us) ==
    burst_body_at(e, VScale(from_angle(us[2]), RMul(us[1], e.radius)), us)

Min(a, b) == IF a < b THEN a ELSE b

\* The bodies spawn_bursts spawns for one event: e.count, as far as the spawn limit
\* and the loop bound let it.
burst_count(e, s, st) == Min(Min(e.count, s.spawn_limit - st), MaxSpawn)

\* The SpawnBurst of drag_spawn for the shortest drag, and the one of a Debris Storm.
drag_burst(center) ==
    [center |-> center, radius |-> RI(10), count |-> 8, base_mass |-> RI(20),
     speed |-> RI(120)]

debris_burst(pos) ==
    [center |-> pos, radius |-> RI(200), count |-> 100, base_mass |-> RI(20),
     speed |-> RI(400)]

\* Where a drag may start.
DragStarts == {VI(340, 0), VI(0, 0)}

\* The place of a hazard at distance d of the player, for the two values drawn.
hazard_pos(player_pos, us, d) ==
    VAdd(player_pos,
         VScale(normalize_or_zero(V(gen_range(us[1], RI(-1), RI(1)),
                                    gen_range(us[2], RI(-1), RI(1)))), RI(d)))

rogue_star_at(player_pos, pos) ==
    Body(pos, RI(100000), VScale(normalize(VSub(player_pos, pos)), RI(300)), FALSE)

rogue_star(player_pos, us) == rogue_star_at(player_pos, hazard_pos(player_pos, us, 2000))

micro_bh(player_pos, us) ==
    Body(hazard_pos(player_pos, us, 1500), RI(1500000), VZero, FALSE)

\* The bodies with the Player component.
players(B) == {e \in DOMAIN B : B[e].player}

\* The number of bodies without it.
others(B) == Cardinality(DOMAIN B \ players(B))

\* q_player.get_single(): the place of the one player, the origin otherwise.
player_pos_of(B) ==
    IF Cardinality({e \in DOMAIN B : B[e].player}) = 1
    THEN B[CHOOSE e \in DOMAIN B : B[e].player].pos
    ELSE VZero

\* ---- the state of the game
\* What a system notes of its draws: the generator, the SimState it ran in, itself.
drawn(source, by) == [source |-> source, state |-> sim_state, by |-> by]

\* Startup, spawn_initial_bodies and spawn_player with the default settings, and a
\* choice in the Scenario combo box.
GameInit ==
    /\ \E sc \in Scenarios : settings = [settings_default EXCEPT !.scenario = sc]
    /\ \E us \in initial_draws(settings) :
          /\ bodies = spawn_player(spawn_initial_bodies_inner(settings, us).bodies)
          /\ stats = spawn_initial_bodies_inner(settings, us).counted
    /\ sim_state = "Parallel"
    /\ tree = tree_default
    /\ hash_build = hash_default
    /\ hash_resolve = hash_default
    /\ done = {}
    /\ frame = 0
    /\ before = << >>
    /\ last = last_none
    /\ game = [game_default EXCEPT
                 !.drew = [source |-> "thread", state |-> "Parallel",
                           by |-> "spawn_initial_bodies"]]

\* The systems under run_if(in_state(AppState::Playing)) run in that state alone.
playing_always(app_state) == TRUE

playing(app_state) == app_state = "Playing"

\* The Deterministic checkbox of ui_system.
ui_deterministic ==
    /\ playing(game.app_state)
    /\ settings' = [settings EXCEPT !.deterministic = ~settings.deterministic]
    /\ game' = [game EXCEPT
                  !.next_state = IF settings.deterministic THEN "Parallel"
                                 ELSE "Sequential"]
    /\ UNCHANGED <<bodies, stats, sim_state, tree, hash_build, hash_resolve, done, frame,
                   before, last>>

\* The state transition at the start of a frame: OnExit and OnEnter of Sequential.
state_transition ==
    /\ game.next_state # "None"
    /\ sim_state' = game.next_state
    /\ game' = [game EXCEPT
                  !.next_state = "None",
                  !.seeded_rng =
                      IF game.next_state = sim_state THEN game.seeded_rng
                      ELSE [present |-> game.next_state = "Sequential", pos |-> 0]]
    /\ UNCHANGED <<bodies, settings, stats, tree, hash_build, hash_resolve, done, frame,
                   before, last>>

\* reset_trigger and the Restart button send a ResetEvent.
reset_trigger ==
    /\ ~game.reset
    /\ game.resets < MaxResets
    /\ game' = [game EXCEPT !.reset = TRUE, !.resets = @ + 1]
    /\ UNCHANGED <<bodies, settings, stats, sim_state, tree, hash_build, hash_resolve,
                   done, frame, before, last>>

\* The writes of handle_reset for the settings s it has loaded and the values us.
reset_writes(s, us) ==
    /\ settings' = s
    /\ bodies' = spawn_initial_bodies_inner(s, us).bodies
    /\ stats' = spawn_initial_bodies_inner(s, us).counted
    /\ tree' = tree_default
    /\ game' = [game EXCEPT
                  !.reset = FALSE,
                  !.drew = drawn(IF s.system_type = "BinaryStar" THEN "none"
                                 ELSE initial_source(s), "handle_reset")]

handle_reset ==
    /\ game.reset
    /\ \E us \in initial_draws(from_scenario(settings.scenario)) :
          reset_writes(from_scenario(settings.scenario), us)
    /\ UNCHANGED <<sim_state, hash_build, hash_resolve, done, frame, before, last>>

\* drag_spawn sends a SpawnBurst.
drag_spawn ==
    /\ game.drags < MaxDrags
    /\ \E s \in DragStarts :
          game' = [game EXCEPT !.bursts = Append(game.bursts, drag_burst(s)),
                               !.drags = @ + 1]
    /\ UNCHANGED <<bodies, settings, stats, sim_state, tree, hash_build, hash_resolve,
                   done, frame, before, last>>

\* The writes of spawn_bursts for the first pending event, n bodies and the values us.
burst_writes(e, n, us) ==
    /\ bodies' = IF n = 0 THEN bodies ELSE spawn(bodies, burst_body(e, us))
    /\ stats' = stats + n
    /\ game' = [game EXCEPT
                  !.bursts = Tail(game.bursts),
                  !.seeded_rng.pos =
                      IF game.seeded_rng.present /\ n > 0 THEN (@ + 5) % 2 ELSE @,
                  !.drew = drawn(IF n = 0 THEN "none"
                                 ELSE IF game.seeded_rng.present THEN "seeded"
                                 ELSE "thread", "spawn_bursts")]

\* spawn_bursts draws from the SeededRng when there is one, from thread_rng otherwise.
spawn_bursts ==
    /\ playing(game.app_state)
    /\ game.bursts # << >>
    /\ others(bodies) < MaxGameBodies
    /\ \E us \in draws(game.seeded_rng.present, game.seeded_rng.pos, 5) :
          burst_writes(Head(game.bursts),
                       burst_count(Head(game.bursts), settings, stats), us)
    /\ UNCHANGED <<settings, sim_state, tree, hash_build, hash_resolve, done, frame,
                   before, last>>

\* The writes of spawn_hazards for the hazard type t and the values us.
hazard_writes(t, player_pos, us) ==
    /\ bodies' = CASE t = 0 -> spawn(bodies, rogue_star(player_pos, us))
                   [] t = 1 -> spawn(bodies, micro_bh(player_pos, us))
                   [] t = 2 -> bodies
    /\ game' = [game EXCEPT
                  !.bursts = IF t = 2
                             THEN Append(@, debris_burst(hazard_pos(player_pos, us, 3000)))
                             ELSE @,
                  !.hazards = @ + 1,
                  !.drew = drawn("thread", "spawn_hazards")]

\* spawn_hazards, when its timer has just finished: it draws from thread_rng.
spawn_hazards ==
    /\ playing(game.app_state)
    /\ others(bodies) < MaxGameBodies
    /\ game.hazards < MaxHazards
    /\ \E t \in 0..2, us \in draws(FALSE, 0, 2) :
          hazard_writes(t, player_pos_of(bodies), us)
    /\ UNCHANGED <<settings, stats, sim_state, tree, hash_build, hash_resolve, done,
                   frame, before, last>>

\* The writes of the collisions of a frame: those of resolve_collisions, and the
\* PlayerDied events its apply pass sent.
collision_writes(res, hash) ==
    /\ resolve_writes(res, hash)
    /\ game' = [game EXCEPT !.player_died = @ \/ res.died > 0]

\* The collisions of a frame: spatial_hash_build, then resolve_collisions handed the
\* SpatialHash just filled.
game_collisions_with(hash) ==
    /\ hash_build' = hash
    /\ \E order \in Orders(DOMAIN hash.map) :
          collision_writes(resolve_collisions(bodies, settings, stats, hash, order), hash)

game_collisions ==
    /\ playing(game.app_state)
    /\ frame < MaxGameFrames
    /\ frame' = frame + 1
    /\ game_collisions_with(spatial_hash_build(hash_build, bodies))
    /\ UNCHANGED <<settings, sim_state, tree, hash_resolve, done>>

\* player_death_system, when a PlayerDied event is there to read.
player_death_system ==
    /\ game.player_died
    /\ game' = [game EXCEPT !.player_died = FALSE, !.next_app_state = "GameOver"]
    /\ UNCHANGED <<bodies, settings, stats, sim_state, tree, hash_build, hash_resolve,
                   done, frame, before, last>>

\* The transition of AppState at the start of a frame.
app_state_transition ==
    /\ game.next_app_state # "None"
    /\ game' = [game EXCEPT !.app_state = game.next_app_state,
                            !.next_app_state = "None"]
    /\ UNCHANGED <<bodies, settings, stats, sim_state, tree, hash_build, hash_resolve,
                   done, frame, before, last>>

\* The Retry button of game_over_ui.
game_over_ui ==
    /\ game.app_state = "GameOver"
    /\ game' = [game EXCEPT !.reset = TRUE, !.next_app_state = "Playing"]
    /\ UNCHANGED <<bodies, settings, stats, sim_state, tree, hash_build, hash_resolve,
                   done, frame, before, last>>

GameNext ==
    \/ ui_deterministic
    \/ state_transition
    \/ reset_trigger
    \/ handle_reset
    \/ drag_spawn
    \/ spawn_bursts
    \/ spawn_hazards
    \/ game_collisions
    \/ player_death_system
    \/ app_state_transition
    \/ game_over_ui

GameSpec == GameInit /\ [][GameNext]_vars

\* player_death_system and the state transition are in the schedule of every frame.
GameLiveSpec ==
    GameSpec /\ WF_vars(player_death_system) /\ WF_vars(app_state_transition)

\* ------------------------------------------------------------ kick2 alone
\* kick2 applied to chosen bodies, as a function of its inputs.

\* Position, mass, velocity and acceleration of the bodies: one far above every speed
\* limit, one at the default limit and pushed, one below and pushed hard, one slow.
KickBodies ==
    {<<VI(0, 0), RI(100), VI(3000, 4000), VI(0, 0)>>,
     <<VI(0, 0), RI(100), VI(1080, -1440), VI(1000, 0)>>,
     <<VI(5, 5), RI(400), VI(-1700, 0), VI(-50000, 30000)>>,
     <<VI(1, 1), RI(100), VI(10, 20), VI(0, 0)>>}

KickPopulations ==
    UNION {
        [1..n -> {[Body(t[1], t[2], t[3], FALSE) EXCEPT !.acc = t[4]] : t \in KickBodies}]
        : n \in 0..MaxSimBodies}

\* The settings of the four scenarios, paused or not, at time scale 1 and 4.
KickSettingsSet ==
    {[from_scenario(sc) EXCEPT !.running = r, !.time_scale = ts] :
        sc \in Scenarios, r \in BOOLEAN, ts \in {RI(1), RI(4)}}

KickInit ==
    /\ settings \in KickSettingsSet
    /\ bodies \in KickPopulations
    /\ stats = Cardinality(DOMAIN bodies)
    /\ sim_state = "Sequential"
    /\ tree = tree_default
    /\ hash_build = hash_default
    /\ hash_resolve = hash_default
    /\ done = {}
    /\ frame = 0
    /\ before = << >>
    /\ last = last_none
    /\ game = game_default

call_kick2 ==
    /\ frame < MaxFrames
    /\ frame' = frame + 1
    /\ bodies' = kick2(bodies, settings)
    /\ before' = bodies
    /\ done' = {"kick2"}
    /\ UNCHANGED <<settings, stats, sim_state, tree, hash_build, hash_resolve, last,
                   game>>

KickNext == call_kick2

KickSpec == KickInit /\ [][KickNext]_vars

\* ------------------------------------------------------------ the quadtree alone
\* QuadTree::new, insert and build_mass_centers applied to chosen points, the way
\* rebuild_quadtree calls them.

\* The points a tree holds at most.
MaxTreePoints == 3

\* Position and mass of the points: three on the horizontal line through the centre
\* of the root (the points insert_node keeps below an Internal node) and two off it.
TreePoints ==
    {<<VI(2, 0), RI(400)>>, <<VI(-3, 0), RI(100)>>, <<VI(1500, 0), RI(20)>>,
     <<VI(-3, -4), RI(100)>>, <<VI(5, 6), RI(400)>>}

TreeInit ==
    /\ bodies = << >>
    /\ settings = settings_default
    /\ stats = 0
    /\ sim_state = "Sequential"
    /\ tree = [root |-> new_tree(Quad(VZero, RI(2000))), bounds |-> Quad(VZero, RI(2000))]
    /\ hash_build = hash_default
    /\ hash_resolve = hash_default
    /\ done = {}
    /\ frame = 0
    /\ before = << >>
    /\ last = last_none
    /\ game = game_default

\* tree.insert(pos, mass) for one more body.
call_insert ==
    /\ done = {}
    /\ Cardinality(DOMAIN bodies) < MaxTreePoints
    /\ \E t \in TreePoints :
          /\ bodies' = spawn(bodies, Body(t[1], t[2], VZero, FALSE))
          /\ tree' = [tree EXCEPT !.root = insert(tree.root, t[1], t[2])]
    /\ UNCHANGED <<settings, stats, sim_state, hash_build, hash_resolve, done, frame,
                   before, last, game>>

\* tree.build_mass_centers()
call_build_mass_centers ==
    /\ done = {}
    /\ tree' = [tree EXCEPT !.root = build_mass_centers(tree.root)]
    /\ done' = {"build_mass_centers"}
    /\ UNCHANGED <<bodies, settings, stats, sim_state, hash_build, hash_resolve, frame,
                   before, last, game>>

TreeNext ==
    \/ call_insert
    \/ call_build_mass_centers

TreeSpec == TreeInit /\ [][TreeNext]_vars

\* ------------------------------------------------------------ rebuild_quadtree alone
\* rebuild_quadtree applied, frame after frame, to chosen bodies.

\* Position and mass of the bodies: some close to the origin, some beyond the bounds
\* of TreeState::default().
RebuildBodies ==
    {<<VI(-3, -4), RI(100)>>, <<VI(2, 0), RI(400)>>, <<VI(5, 6), RI(400)>>,
     <<VI(50000, -3), RI(100)>>, <<VI(0, -120000), RI(20)>>, <<VI(-11000, 11000), RI(20)>>}

RebuildPopulations ==
    UNION {
        [1..n -> {Body(t[1], t[2], VZero, FALSE) : t \in RebuildBodies}]
        : n \in 0..MaxSimBodies}

RebuildInit ==
    /\ bodies \in RebuildPopulations
    /\ settings = settings_default
    /\ stats = Cardinality(DOMAIN bodies)
    /\ sim_state = "Sequential"
    /\ tree = tree_default
    /\ hash_build = hash_default
    /\ hash_resolve = hash_default
    /\ done = {}
    /\ frame = 0
    /\ before = << >>
    /\ last = last_none
    /\ game = game_default

call_rebuild_quadtree ==
    /\ frame < MaxFrames
    /\ frame' = frame + 1
    /\ tree' = rebuild_quadtree(tree, bodies)
    /\ done' = {"rebuild_quadtree"}
    /\ UNCHANGED <<bodies, settings, stats, sim_state, hash_build, hash_resolve, before,
                   last, game>>

RebuildNext == call_rebuild_quadtree

RebuildSpec == RebuildInit /\ [][RebuildNext]_vars

\* ------------------------------------------------------------ properties
\* The sum of f[e] over the entities e of S, and the same for vectors.
RECURSIVE RSum(_, _)
RSum(f, S) ==
    IF S = {} THEN Zero
    ELSE LET e == CHOOSE x \in S : TRUE
         IN  RAdd(f[e], RSum(f, S \ {e}))

VSum(f, S) == V(RSum([e \in S |-> f[e].x], S), RSum([e \in S |-> f[e].y], S))

total_mass(B) == RSum([e \in DOMAIN B |-> B[e].mass], DOMAIN B)

total_momentum(B) == VSum([e \in DOMAIN B |-> VScale(B[e].vel, B[e].mass)], DOMAIN B)

\* The mass aggregated at a root.
root_mass(node) ==
    IF node.kind \in {"Leaf", "Internal"} THEN node.mass ELSE Zero

\* The ids held by the cell lists of a SpatialHash, with their multiplicity.
occurrences(hash, e) ==
    Cardinality({<<k, i>> \in UNION {{k} \X DOMAIN hash.map[k] : k \in DOMAIN hash.map} :
                    hash.map[k][i] = e})

\* C1: after rebuild_quadtree has inserted every body (all inside the root bounds) and
\* called build_mass_centers, the mass aggregated at the root is the sum of the masses
\* of the bodies.
C1_RootMassIsSum ==
    "rebuild_quadtree" \in done => root_mass(tree.root) = total_mass(bodies)

\* C2: the SpatialHash resolve_collisions has read holds every body that was live
\* when it ran, and is the one spatial_hash_build filled when that has run before it
\* in the frame.
C2_ResolverReadsBuiltHash ==
    last.ran /\ "resolve_collisions" \in done =>
        /\ \A e \in DOMAIN before : occurrences(last.hash, e) >= 1
        /\ sim_state = "Sequential" => last.hash = hash_build

\* The brute-force acceleration at p: the softened term of every body of B, summed.
direct_sum(B, p, g, soft2) ==
    VSum([e \in DOMAIN B |->
            IF RAdd(VLen2(VSub(B[e].pos, p)), soft2) = Zero THEN VZero
            ELSE point_acc(g, B[e].mass, VSub(B[e].pos, p),
                           RAdd(VLen2(VSub(B[e].pos, p)), soft2))],
         DOMAIN B)

\* The softening squared apply_bh_forces uses at p.
soft2_at(p) ==
    RMul(softening_for(settings, get_density_factor(tree.root, p)),
         softening_for(settings, get_density_factor(tree.root, p)))

\* C5: with Theta at 0 (Adaptive Theta off), the acceleration apply_bh_forces stores
\* for a body from the tree just rebuilt is the brute-force sum over all bodies.
C5_ThetaZeroIsDirectSum ==
    /\ sim_state = "Sequential"
    /\ settings.running
    /\ ~settings.adaptive_theta
    /\ settings.theta = Zero
    /\ "apply_bh_forces" \in done
    => \A e \in DOMAIN bodies :
          bodies[e].acc = direct_sum(bodies, bodies[e].pos, settings.g,
                                     soft2_at(bodies[e].pos))

\* ---- resolve_collisions handed the hash spatial_hash_build filled (ResolveSpec)
absorb_ran == last.ran /\ settings.collision_mode = "Absorb"

elastic_ran == last.ran /\ settings.collision_mode = "Elastic"

\* The momentum mass * vel of a body.
momentum(b) == VScale(b.vel, b.mass)

\* C3: with Absorb Bias 0 every Merge carries new_mass = m1 + m2 and a new_vel with
\* new_mass * new_vel = m1 * v1 + m2 * v2; when the scan decided one Merge, the bodies
\* it leaves have the total mass and the total momentum of the bodies it found.
C3_MergeConservesMassAndMomentum ==
    absorb_ran /\ settings.absorb_bias = Zero =>
        /\ \A i \in DOMAIN last.merges :
              /\ last.merges[i].new_mass =
                    RAdd(before[last.merges[i].winner].mass,
                         before[last.merges[i].loser].mass)
              /\ VScale(last.merges[i].new_vel, last.merges[i].new_mass) =
                    VAdd(momentum(before[last.merges[i].winner]),
                         momentum(before[last.merges[i].loser]))
        /\ Len(last.merges) = 1 =>
              /\ total_mass(last.bodies) = total_mass(before)
              /\ total_momentum(last.bodies) = total_momentum(before)

\* A single Merge of two bodies of different mass and velocity was applied with
\* Absorb Bias 0: the loser is gone and the winner carries the new mass.
C3_Witness ==
    /\ absorb_ran
    /\ settings.absorb_bias = Zero
    /\ Len(last.merges) = 1
    /\ Len(last.applied) = 1
    /\ before[last.merges[1].winner].mass # before[last.merges[1].loser].mass
    /\ before[last.merges[1].winner].vel # before[last.merges[1].loser].vel
    /\ last.merges[1].loser \notin DOMAIN last.bodies
    /\ last.bodies[last.merges[1].winner].mass = last.merges[1].new_mass

\* 1 + absorb_bias
bias_factor == RAdd(RI(1), settings.absorb_bias)

\* C4 (amended): with Absorb Bias > 0 the mass a Merge writes to the winner is
\* m_winner * (1 + bias) + m_loser, which is at least max(m1, m2) and at most
\* (m1 + m2) * (1 + bias).
C4_MergedMassInterval ==
    absorb_ran /\ RGt(settings.absorb_bias, Zero) =>
        \A i \in DOMAIN last.applied :
            LET m == last.applied[i]
                mw == before[m.winner].mass
                ml == before[m.loser].mass
            IN  /\ m.new_mass = RAdd(RMul(mw, bias_factor), ml)
                /\ RGe(m.new_mass, RMax(mw, ml))
                /\ RLe(m.new_mass, RMul(RAdd(mw, ml), bias_factor))

\* A Merge of a heavier winner with a lighter loser was applied with Absorb Bias > 0.
C4_Witness ==
    /\ absorb_ran
    /\ RGt(settings.absorb_bias, Zero)
    /\ \E i \in DOMAIN last.applied :
          /\ RGt(before[last.applied[i].winner].mass, before[last.applied[i].loser].mass)
          /\ last.applied[i].winner \in DOMAIN last.bodies

\* C4 as stated: the merged mass lies in [max(m1, m2), m1 + m2 * (1 + bias)],
\* whichever of the two bodies is called the first.
C4_AsStated ==
    absorb_ran /\ RGt(settings.absorb_bias, Zero) =>
        \A i \in DOMAIN last.applied :
            \A p \in {<<last.applied[i].winner, last.applied[i].loser>>,
                      <<last.applied[i].loser, last.applied[i].winner>>} :
                /\ RGe(last.applied[i].new_mass,
                       RMax(before[p[1]].mass, before[p[2]].mass))
                /\ RLe(last.applied[i].new_mass,
                       RAdd(before[p[1]].mass, RMul(before[p[2]].mass, bias_factor)))

\* The cell lists of a SpatialHash that hold e.
cells_of(hash, e) ==
    {k \in DOMAIN hash.map : \E i \in DOMAIN hash.map[k] : hash.map[k][i] = e}

\* k = floor(x / cell), said without dividing: k * cell <= x < (k + 1) * cell.
is_floor_of(k, x, cell) ==
    RLe(RMul(RI(k), cell), x) /\ RLt(x, RMul(RI(k + 1), cell))

just_built == done = {"spatial_hash_build"}

\* C6: when spatial_hash_build returns, every live body's id is in one cell list only
\* and once in it, the list of the cell (floor(x / cell), floor(y / cell)), and the
\* lists hold no id that is not a live body's.
C6_EveryBodyInItsCellOnce ==
    just_built =>
        /\ \A e \in DOMAIN bodies :
              /\ occurrences(hash_build, e) = 1
              /\ \A k \in cells_of(hash_build, e) :
                    /\ is_floor_of(k[1], bodies[e].pos.x, hash_build.cell)
                    /\ is_floor_of(k[2], bodies[e].pos.y, hash_build.cell)
        /\ \A k \in DOMAIN hash_build.map :
              /\ hash_build.map[k] # << >>
              /\ \A i \in DOMAIN hash_build.map[k] : hash_build.map[k][i] \in DOMAIN bodies

\* The second rebuild, after a Merge has despawned a body that the first rebuild had
\* listed, with the two bodies left in different cells.
C6_Witness ==
    /\ just_built
    /\ frame = 2
    /\ \E e \in DOMAIN before : e \notin DOMAIN bodies /\ occurrences(last.hash, e) = 1
    /\ Cardinality(DOMAIN bodies) = 2
    /\ Cardinality(DOMAIN hash_build.map) = 2

\* The entities of a sequence.
Range(seq) == {seq[i] : i \in DOMAIN seq}

\* An overlapping pair of B whose combined radius is at most the cell size.
close_pair(B, hash, a, b) ==
    /\ a # b
    /\ RLe(VLen2(VSub(B[b].pos, B[a].pos)),
           RMul(RAdd(radius_of(B[a]), radius_of(B[b])),
                RAdd(radius_of(B[a]), radius_of(B[b]))))
    /\ RLe(RAdd(radius_of(B[a]), radius_of(B[b])), hash.cell)

\* C7: in a hash that buckets every body, each body b that overlaps a body a, their
\* combined radius at most the cell size, is among the candidates of a's cell; and
\* after the scan such a pair has been examined: one of the two was removed (Absorb) or
\* processed (Elastic), unless the two coincide in Elastic mode.
C7_NeighbourhoodHoldsEveryClosePair ==
    /\ just_built =>
          \A a, b \in DOMAIN bodies :
              close_pair(bodies, hash_build, a, b) =>
                  b \in Range(candidates(hash_build,
                                         cell_key(bodies[a].pos, hash_build.cell)))
    /\ last.ran /\ "resolve_collisions" \in done =>
          \A a, b \in DOMAIN before :
              close_pair(before, last.hash, a, b) =>
                  \/ a \in last.removed \cup last.processed
                  \/ b \in last.removed \cup last.processed
                  \/ elastic_ran /\ before[a].pos = before[b].pos

\* The scan has run over a close pair whose two bodies lie in different cells.
C7_Witness ==
    /\ last.ran
    /\ "resolve_collisions" \in done
    /\ \E a, b \in DOMAIN before :
          /\ close_pair(before, last.hash, a, b)
          /\ cell_key(before[a].pos, last.hash.cell) # cell_key(before[b].pos, last.hash.cell)
          /\ {a, b} \cap (last.removed \cup last.processed) # {}

\* The pairs resolved by the Elastic scan: updates holds the two results of a pair
\* one after the other.
resolved_pairs == {k \in 1..Len(last.updates) : k % 2 = 1}

\* pb - pa of the pair whose results start at index k, as the scan found it.
delta_of(k) ==
    VSub(before[last.updates[k + 1].entity].pos, before[last.updates[k].entity].pos)

\* (the 90 degree turn of delta, along which the tangent lies)
turned(d) == V(RNeg(d.y), d.x)

\* ma * (va . delta)^2 + mb * (vb . delta)^2: the kinetic energy of the normal
\* components, 1/2 ma van^2 + 1/2 mb vbn^2, times 2 * |delta|^2, since van is
\* va . delta / |delta|.
normal_energy(ma, va, mb, vb, d) ==
    RAdd(RMul(ma, RMul(VDot(va, d), VDot(va, d))),
         RMul(mb, RMul(VDot(vb, d), VDot(vb, d))))

\* C8: with Restitution 1, for every resolved pair the kinetic energy of the velocity
\* components along the normal is the same before and after.
C8_NormalEnergyConserved ==
    elastic_ran /\ settings.restitution = RI(1) =>
        \A k \in resolved_pairs :
            LET a == last.updates[k].entity
                b == last.updates[k + 1].entity
            IN  normal_energy(before[a].mass, last.updates[k].new_vel,
                              before[b].mass, last.updates[k + 1].new_vel, delta_of(k))
                = normal_energy(before[a].mass, before[a].vel,
                                before[b].mass, before[b].vel, delta_of(k))

\* A pair of bodies of different mass, approaching along the normal, was resolved
\* with Restitution 1 and its velocities were written.
C8_Witness ==
    /\ elastic_ran
    /\ settings.restitution = RI(1)
    /\ \E k \in resolved_pairs :
          LET a == last.updates[k].entity
              b == last.updates[k + 1].entity
          IN  /\ before[a].mass # before[b].mass
              /\ VDot(before[a].vel, delta_of(k)) # VDot(before[b].vel, delta_of(k))
              /\ last.bodies[a].vel = last.updates[k].new_vel
              /\ last.bodies[a].vel # before[a].vel
              /\ last.bodies[b].vel # before[b].vel

\* C9: with Restitution 0, after a pair is resolved both bodies have the same velocity
\* component along the normal, the mass-weighted mean of the two incoming ones, and
\* each keeps its component along the tangent.  (Components are compared times
\* |delta|.)
C9_CommonNormalVelocity ==
    elastic_ran /\ settings.restitution = Zero =>
        \A k \in resolved_pairs :
            LET a == last.updates[k].entity
                b == last.updates[k + 1].entity
                d == delta_of(k)
                mean == RDiv(RAdd(RMul(before[a].mass, VDot(before[a].vel, d)),
                                  RMul(before[b].mass, VDot(before[b].vel, d))),
                             RAdd(before[a].mass, before[b].mass))
            IN  /\ VDot(last.updates[k].new_vel, d) = mean
                /\ VDot(last.updates[k + 1].new_vel, d) = mean
                /\ VDot(last.updates[k].new_vel, turned(d)) = VDot(before[a].vel, turned(d))
                /\ VDot(last.updates[k + 1].new_vel, turned(d))
                      = VDot(before[b].vel, turned(d))

\* A pair with different normal components, on an oblique normal, was resolved with
\* Restitution 0 and its velocities were written.
C9_Witness ==
    /\ elastic_ran
    /\ settings.restitution = Zero
    /\ \E k \in resolved_pairs :
          LET a == last.updates[k].entity
              b == last.updates[k + 1].entity
          IN  /\ VDot(before[a].vel, delta_of(k)) # VDot(before[b].vel, delta_of(k))
              /\ delta_of(k).x # Zero
              /\ delta_of(k).y # Zero
              /\ VDot(before[a].vel, turned(delta_of(k))) # Zero
              /\ last.bodies[a].vel = last.updates[k].new_vel
              /\ last.bodies[b].vel = last.updates[k + 1].new_vel

\* The bodies that touch a only by lying at its very position: a has company
\* there, and every body elsewhere is farther than the two radii.
only_coincident(B, a) ==
    /\ \E b \in DOMAIN B \ {a} : B[b].pos = B[a].pos
    /\ \A b \in DOMAIN B \ {a} :
          \/ B[b].pos = B[a].pos
          \/ RGt(VLen2(VSub(B[b].pos, B[a].pos)),
                 RMul(RAdd(radius_of(B[a]), radius_of(B[b])),
                      RAdd(radius_of(B[a]), radius_of(B[b]))))

\* C10: in Elastic mode no pair of bodies at the same position is resolved; a body
\* that touches others only that way is not marked processed and keeps its position
\* and velocity; and no body is left with a non-finite position or velocity.
C10_CoincidentPairSkipped ==
    elastic_ran =>
        /\ \A k \in resolved_pairs : delta_of(k) # VZero
        /\ \A a \in DOMAIN before :
              only_coincident(before, a) =>
                  a \notin last.processed /\ last.bodies[a] = before[a]
        /\ \A e \in DOMAIN last.bodies :
              VFinite(last.bodies[e].pos) /\ VFinite(last.bodies[e].vel)

\* The Elastic scan has run over two bodies at the same position, in reach of no
\* other body.
C10_Witness ==
    /\ elastic_ran
    /\ "resolve_collisions" \in done
    /\ \E a, b \in DOMAIN before :
          /\ a # b
          /\ before[a].pos = before[b].pos
          /\ only_coincident(before, a)
          /\ only_coincident(before, b)
          /\ last.bodies[a] = before[a]

\* ---- the schedule
\* The first n core systems.
first_systems(n) == {core_systems[i] : i \in 1..n}

\* C11: in Sequential mode the core systems of a frame run in the order kick1_drift,
\* rebuild_quadtree, apply_bh_forces, kick2, spatial_hash_build, resolve_collisions:
\* a step in which a system runs adds it to exactly its predecessors in that order.
C11_SequentialOrder ==
    [][sim_state = "Sequential" /\ done' # done /\ done' # {} =>
          \E n \in 1..Len(core_systems) :
              done = first_systems(n - 1) /\ done' = first_systems(n)]_vars

\* A second Sequential frame has run all six systems.
C11_Witness ==
    /\ sim_state = "Sequential"
    /\ frame = 2
    /\ done = first_systems(Len(core_systems))

\* ---- the generators of the spawns
\* C12: in Sequential mode every randomized spawn (the bodies of a reset, of a burst,
\* of a hazard) draws from the seeded generator, so that the bodies spawned are a
\* function of the state and the inputs: no system that runs in Sequential mode draws
\* from thread_rng.
C12_SequentialSpawnsSeeded ==
    game.drew.state = "Sequential" => game.drew.source # "thread"

\* ---- the class of a body
\* C15: between two systems every body's class is Class::from_mass of its mass,
\* whatever spawns, absorptions and resets have happened.
C15_ClassIsFromMass ==
    \A e \in DOMAIN bodies : bodies[e].class = from_mass(bodies[e].mass)

\* After a reset and a spawn, a merge has changed the mass of a body that is still
\* there.
C15_Witness ==
    /\ game.resets > 0
    /\ ~game.reset
    /\ last.applied # << >>
    /\ \E e \in DOMAIN bodies \cap DOMAIN before :
          /\ bodies[e].mass # before[e].mass
          /\ Cardinality(DOMAIN bodies) < Cardinality(DOMAIN before)

\* ---- the two passes of the Absorb branch
\* C13: in Absorb mode every merge's new mass and velocity are computed from the
\* masses and velocities the bodies had when resolve_collisions started, and a body
\* that no applied merge names as winner keeps its mass, class and velocity.
C13_MergesFromStartValues ==
    absorb_ran =>
        /\ \A i \in DOMAIN last.merges :
               last.merges[i] =
                   merge_of(before, settings, last.merges[i].winner,
                            last.merges[i].loser)
        /\ \A e \in DOMAIN bodies :
               (\A i \in DOMAIN last.applied : last.applied[i].winner # e) =>
                   bodies[e] = before[e]

\* One body has won two merges of the same step.
C13_Witness ==
    /\ absorb_ran
    /\ \E i, j \in DOMAIN last.applied :
          /\ i < j
          /\ last.applied[i].winner = last.applied[j].winner

\* C14: the BodyAbsorbed events of a step correspond one to one, in order, to the
\* merges the apply pass applied: none is sent for a merge it skipped; and no body is
\* the loser of two applied merges, so each is despawned at most once.
C14_AbsorbedMatchesApplied ==
    absorb_ran =>
        /\ Len(last.absorbed) = Len(last.applied)
        /\ \A i \in DOMAIN last.applied :
               last.absorbed[i] = absorbed_of(before, last.applied[i])
        /\ \A i, j \in DOMAIN last.applied :
               last.applied[i].loser = last.applied[j].loser => i = j
        /\ last.already_gone = {last.applied[i].loser : i \in DOMAIN last.applied}

\* A step with two merges, the winner of the first being the loser of the second.
C14_Witness ==
    /\ absorb_ran
    /\ Len(last.applied) = 2
    /\ last.applied[1].winner = last.applied[2].loser

\* ---- the speed limit
\* The square of the speed of a body.
speed2(b) == VLen2(b.vel)

\* C16: after kick2 has run with `running` set, no body is faster than
\* settings.max_vel.
C16_SpeedWithinMaxVel ==
    done = {"kick2"} /\ settings.running =>
        \A e \in DOMAIN bodies :
            RLe(speed2(bodies[e]), RMul(settings.max_vel, settings.max_vel))

\* kick2 has run on a body that its half kick took above the limit.
C16_Witness ==
    /\ done = {"kick2"}
    /\ settings.running
    /\ \E e \in DOMAIN bodies :
          /\ RLe(speed2(before[e]), RMul(settings.max_vel, settings.max_vel))
          /\ bodies[e].vel # kick2_unclamped(before, settings)[e].vel

\* ---- the pause
\* The core systems that integrate.
integrators == {"kick1_drift", "apply_bh_forces", "kick2"}

\* C17: while settings.running is false, kick1_drift, apply_bh_forces and kick2 leave
\* every body's position, velocity and acceleration as they were.
C17_PausedIntegratorsChangeNothing ==
    [][~settings.running /\ (\E sys \in integrators : done' = done \cup {sys} /\ done' # done)
           => bodies' = bodies]_vars

\* Paused, with a moving body, and the three integrating systems have run.
C17_Witness ==
    /\ ~settings.running
    /\ integrators \subseteq done
    /\ \E e \in DOMAIN bodies : bodies[e].vel # VZero

\* ---- the quadtree
\* C18: for a quad and a point p it contains, the child that subdivide() puts at
\* child_index(p, quad) contains p.  Stated for the root bounds and the bodies.
C18_ChildAtIndexContainsPoint ==
    \A e \in DOMAIN bodies :
        contains(tree.bounds, bodies[e].pos) =>
            contains(subdivide(tree.bounds)[child_index(bodies[e].pos, tree.bounds)],
                     bodies[e].pos)

\* Two bodies at one place inside the root bounds.
coincident_pair ==
    \E a, b \in DOMAIN bodies :
        /\ a # b
        /\ bodies[a].pos = bodies[b].pos
        /\ contains(tree.bounds, bodies[a].pos)

\* C19: the insertion of a point at the place of an existing leaf routes both to the
\* same child at every level and subdivides without bound, so that insert_node does
\* not return: rebuild_quadtree never completes on bodies of which two coincide.
C19_CoincidentInsertNeverReturns ==
    ~ /\ sim_state = "Sequential"
      /\ "rebuild_quadtree" \in done
      /\ "apply_bh_forces" \notin done
      /\ coincident_pair

\* The sum of the masses of the leaves below a node, and of their mass * pos.
RECURSIVE leaf_mass(_)
leaf_mass(node) ==
    CASE node.kind = "Empty" -> Zero
      [] node.kind = "Leaf" -> node.mass
      [] node.kind = "Internal" ->
            RAdd(RAdd(leaf_mass(node.children[1]), leaf_mass(node.children[2])),
                 RAdd(leaf_mass(node.children[3]), leaf_mass(node.children[4])))

RECURSIVE leaf_moment(_)
leaf_moment(node) ==
    CASE node.kind = "Empty" -> VZero
      [] node.kind = "Leaf" -> VScale(node.pos, node.mass)
      [] node.kind = "Internal" ->
            VAdd(VAdd(leaf_moment(node.children[1]), leaf_moment(node.children[2])),
                 VAdd(leaf_moment(node.children[3]), leaf_moment(node.children[4])))

\* The number of leaves below a node.
RECURSIVE leaf_count(_)
leaf_count(node) ==
    CASE node.kind = "Empty" -> 0
      [] node.kind = "Leaf" -> 1
      [] node.kind = "Internal" ->
            leaf_count(node.children[1]) + leaf_count(node.children[2])
            + leaf_count(node.children[3]) + leaf_count(node.children[4])

\* Every Internal node at or below `node` caches the mass and the centre of mass of
\* the leaves below it.
RECURSIVE aggregates_hold(_)
aggregates_hold(node) ==
    node.kind = "Internal" =>
        /\ node.mass = leaf_mass(node)
        /\ node.com = IF leaf_mass(node) = Zero THEN VZero
                      ELSE VDivS(leaf_moment(node), leaf_mass(node))
        /\ \A i \in 1..4 : aggregates_hold(node.children[i])

\* C20: after build_mass_centers every Internal node's cached mass is the sum of the
\* masses of the leaves below it and its com their mass-weighted mean, the zero
\* vector when that sum is 0.
C20_AggregatesOfLeaves ==
    done = {"build_mass_centers"} => aggregates_hold(tree.root)

\* build_mass_centers has run on a root with two leaves of different mass below it.
C20_Witness ==
    /\ done = {"build_mass_centers"}
    /\ tree.root.kind = "Internal"
    /\ leaf_count(tree.root) = 2
    /\ tree.root.children[1].kind = "Leaf"
    /\ tree.root.children[2].kind = "Leaf"
    /\ tree.root.children[1].mass # tree.root.children[2].mass

\* ---- the winner of a merge
\* The winner the rule names for the scanned body a and its candidate b.
winner_by_rule(B, a, b) ==
    IF (B[a].class = "BlackHole") # (B[b].class = "BlackHole")
    THEN (IF B[a].class = "BlackHole" THEN a ELSE b)
    ELSE (IF RLt(B[a].mass, B[b].mass) THEN b ELSE a)

\* C21: in Absorb mode the Merge of an overlapping pair, a being the body scanned,
\* names as winner the black hole when exactly one of the two is one, otherwise the
\* body of greater mass, and a on equal mass; the loser is the other body.  Every
\* Merge recorded in a step names a winner the rule allows.
C21_WinnerByRule ==
    absorb_ran =>
        /\ \A a, b \in DOMAIN before :
               a # b /\ overlapping(before[a], before[b]) =>
                   /\ merge_of(before, settings, a, b).winner = winner_by_rule(before, a, b)
                   /\ merge_of(before, settings, a, b).loser
                          = CHOOSE x \in {a, b} : x # winner_by_rule(before, a, b)
        /\ \A i \in DOMAIN last.merges :
               last.merges[i].winner
                   \in {winner_by_rule(before, last.merges[i].winner, last.merges[i].loser),
                        winner_by_rule(before, last.merges[i].loser, last.merges[i].winner)}

\* A step with a merge of two bodies of equal mass and one of a black hole with a
\* body that is none.
C21_Witness ==
    /\ absorb_ran
    /\ \E i \in DOMAIN last.merges :
          before[last.merges[i].winner].mass = before[last.merges[i].loser].mass
    /\ \E i \in DOMAIN last.merges :
          /\ before[last.merges[i].winner].class = "BlackHole"
          /\ before[last.merges[i].loser].class # "BlackHole"

\* ---- several merges in one step
\* C22: in an Absorb step no body that is the winner of an applied merge is the
\* loser of another applied merge: every body written as a winner survives the step.
C22_WinnersSurvive ==
    absorb_ran =>
        \A i, j \in DOMAIN last.applied : last.applied[i].winner # last.applied[j].loser

\* C23: in Absorb mode with Absorb Bias 0 the bodies that survive a step have the
\* total mass of the bodies before it, however many merges the step applied.
C23_TotalMassConserved ==
    absorb_ran /\ settings.absorb_bias = Zero =>
        total_mass(last.bodies) = total_mass(before)

\* ---- one resolution per body
\* C24: in an Elastic step the list of updates holds at most one update per body,
\* however many bodies overlap it.
C24_OneUpdatePerBody ==
    elastic_ran =>
        \A i, j \in DOMAIN last.updates :
            last.updates[i].entity = last.updates[j].entity => i = j

\* An Elastic step that resolved one pair and left out a third body that overlaps a
\* body of the pair at a distance.
C24_Witness ==
    /\ elastic_ran
    /\ Len(last.updates) = 2
    /\ \E e \in DOMAIN before :
          /\ e \notin {last.updates[1].entity, last.updates[2].entity}
          /\ \E k \in 1..2 :
                /\ overlapping(before[e], before[last.updates[k].entity])
                /\ before[e].pos # before[last.updates[k].entity].pos

\* ---- the root bounds
\* C25: the root bounds rebuild_quadtree chooses contain the position of every body
\* it inserts.
C25_BoundsContainBodies ==
    done = {"rebuild_quadtree"} =>
        \A e \in DOMAIN bodies : contains(tree.bounds, bodies[e].pos)

\* A rebuild with a body beyond the bounds of TreeState::default().
C25_Witness ==
    /\ done = {"rebuild_quadtree"}
    /\ \E e \in DOMAIN bodies : ~contains(tree_default.bounds, bodies[e].pos)

C26_ForcesWalkThisFramesTree ==
    [][sim_state = "Parallel" =>
          /\ "rebuild_quadtree" \in done' \ done => "kick1_drift" \in done
          /\ "apply_bh_forces" \in done' \ done =>
                 {"kick1_drift", "rebuild_quadtree"} \subseteq done]_vars

\* ---- the settings and the states after a reset
\* C27: after any toggles and resets, once the pending state transition has run,
\* settings.deterministic holds exactly when SimState is Sequential, and the SeededRng
\* exists exactly then.
C27_DeterministicIffSequential ==
    game.next_state = "None" =>
        /\ settings.deterministic <=> sim_state = "Sequential"
        /\ game.seeded_rng.present <=> sim_state = "Sequential"

\* C28: once handle_reset has processed a ResetEvent and its commands are applied,
\* exactly one body with the Player component exists.
C28_OnePlayerAfterReset ==
    game.drew.by = "handle_reset" => Cardinality(players(bodies)) = 1

\* ---- the death of the player
\* The player is the loser of one of the merges ms, applied to the bodies B.
player_lost(B, ms) ==
    \E i \in DOMAIN ms : ms[i].loser \in DOMAIN B /\ B[ms[i].loser].player

============================================================================
